---- MODULE Spec2Model ----
(***************************************************************************)
(* A model of the rustrunner control plane: the gateway's request loop     *)
(* (server.rs), the queue registry (queue.rs), the stats store (stats.rs), *)
(* the webhook scheduler (scheduler.rs) and the configuration loader       *)
(* (config.rs).  Strings the code inspects character by character (paths,  *)
(* prefixes, URLs) are sequences of one-character strings.                 *)
(***************************************************************************)
EXTENDS Integers, Sequences, FiniteSets, TLC

VARIABLES
    inbox,      \* requests accepted by tiny_http and not yet taken by the loop
    nreq,       \* number of client requests sent so far
    gw,         \* the single thread running run_server's loop
    svc,        \* the upstream service's position inside its notify handler
    queues,     \* QueueRegistry.queues
    stats,      \* StatsStore.data
    nrec,       \* number of direct StatsStore::record calls so far
    now,        \* wall clock, in seconds since the epoch
    snap,       \* history: the last StatsStore::snapshot of the store as it is
    done,       \* history: what the last finished request received and caused
    prepLog,    \* history: per queue, the counts prepare_delivery returned
    published,  \* history: per queue, the number of publishes accepted
    qsnaps,     \* history: the last two results of QueueRegistry::snapshot
    sched,      \* the schedule map: service name -> list of ScheduleState
    timer,      \* run_schedule's locals and position, one per schedule
    manual,     \* the gateway thread inside the schedule control endpoints
    clock,      \* monotonic clock (Instant), in seconds
    lastStored, \* history: the last state update of a run
    ssnap,      \* history: the last snapshot of the schedule map
    toggles,    \* history: the last two successful toggles of the schedule
    rin,        \* routing: the service list and path given to the resolver
    rout,       \* routing: the resolver's result
    dir,        \* loader: the entries of the services directory
    loaded,     \* loader: the result of load_services
    page_limit, \* loader: the last answer of Service::memory_page_limit
    poisoned,   \* the stores whose mutex a panicking holder has poisoned
    logs,       \* the log store: service name -> ring of lines
    fwd,        \* the log forwarder threads: lines read since the start
    health,     \* the health map: service name -> ServiceHealth
    monitor,    \* the health monitor thread: its position and locals
    memory,     \* the memory store: service name -> ServiceMemorySnapshot
    memop,      \* history: the calls made on the memory store, and the last one
    boot,       \* start_service_processes: its position, locals and result
    children,   \* the child process of every service, if one was spawned
    ports,      \* the services another process already serves
    held,       \* the store mutexes: store name -> the thread holding it
    lpc,        \* every thread's position in the steps of what it runs
    ticker      \* one run_schedule loop: its locals and the ticks it fired on

gwVars == <<inbox, nreq, gw, svc, queues, done, prepLog, published, qsnaps>>
statsVars == <<stats, nrec, now, snap>>
schedVars == <<sched, timer, manual, clock, lastStored, ssnap, toggles>>
routeVars == <<rin, rout>>
loadVars == <<dir, loaded, page_limit>>
coreVars == <<gwVars, statsVars, schedVars, routeVars, loadVars>>
ctlVars == <<poisoned, logs, fwd>>
healthVars == <<health, monitor>>
memVars == <<memory, memop>>
procVars == <<boot, children, ports>>
lockVars == <<held, lpc>>
loopVars == <<ticker>>
hostVars == <<ctlVars, healthVars, memVars, procVars, lockVars, loopVars>>
outsideCtl == <<coreVars, healthVars, memVars, procVars, lockVars, loopVars>>
outsideHealth ==
    <<gwVars, statsVars, routeVars, loadVars, ctlVars, memVars, procVars, lockVars,
      loopVars>>
outsideMem == <<coreVars, ctlVars, healthVars, procVars, lockVars, loopVars>>
outsideProc == <<coreVars, ctlVars, healthVars, memVars, lockVars, loopVars>>
outsideLocks == <<coreVars, ctlVars, healthVars, memVars, procVars, loopVars>>
outsideLoop == <<coreVars, ctlVars, healthVars, memVars, procVars, lockVars>>
outsideGateway == <<schedVars, routeVars, loadVars, hostVars>>
vars == <<gwVars, statsVars, schedVars, routeVars, loadVars, hostVars>>

-----------------------------------------------------------------------------
(* Bounds of the model.                                                    *)

MaxRequests == 3
MaxQueueRequests == 5
MaxClockSteps == 1
MaxRecords == 3
MaxClock == 2
MaxControlRequests == 2
MaxLogLines == 2
MaxMemoryCalls == 3
MaxTicks == 7

-----------------------------------------------------------------------------
(* Strings as character sequences, with the std::str operations used.      *)

Slash == "/"

RECURSIVE TrimStartMatches(_, _)
TrimStartMatches(s, ch) ==
    IF s # <<>> /\ Head(s) = ch THEN TrimStartMatches(Tail(s), ch) ELSE s

RECURSIVE TrimEndMatches(_, _)
TrimEndMatches(s, ch) ==
    IF s # <<>> /\ s[Len(s)] = ch
    THEN TrimEndMatches(SubSeq(s, 1, Len(s) - 1), ch)
    ELSE s

TrimMatches(s, ch) == TrimEndMatches(TrimStartMatches(s, ch), ch)

\* str::trim: strips leading and trailing white space.
Trim(s) == TrimMatches(s, " ")

StartsWith(s, p) == Len(p) <= Len(s) /\ SubSeq(s, 1, Len(p)) = p

\* str::strip_prefix: Some(rest) when s starts with p, None otherwise.
StripPrefix(s, p) ==
    IF StartsWith(s, p)
    THEN [some |-> TRUE, rest |-> SubSeq(s, Len(p) + 1, Len(s))]
    ELSE [some |-> FALSE, rest |-> <<>>]

\* Lexicographic order on strings (str::cmp), characters ordered as listed.
CharRank(c) ==
    CASE c = " " -> 0 [] c = "/" -> 1 [] c = "_" -> 2 [] c = "a" -> 3
      [] c = "b" -> 4 [] c = "c" -> 5 [] c = "h" -> 6 [] c = "n" -> 7
      [] c = "p" -> 8 [] c = "q" -> 9 [] c = "r" -> 10 [] OTHER -> 11

RECURSIVE StrLess(_, _)
StrLess(s, t) ==
    IF t = <<>> THEN FALSE
    ELSE IF s = <<>> THEN TRUE
    ELSE IF Head(s) = Head(t) THEN StrLess(Tail(s), Tail(t))
    ELSE CharRank(Head(s)) < CharRank(Head(t))

-----------------------------------------------------------------------------
(* config.rs: the Service record and the service list the gateway serves.  *)

\* Service::supports
Supports(service, method, endpoint) ==
    method = "GET" /\ endpoint \in service.allowed_get_endpoints

Str_a == <<"a">>
Str_b == <<"b">>
Str_q == <<"q">>
Str_r == <<"r">>
Str_p == <<"p">>
Str_n == <<"n">>

\* A service whose endpoint n publishes to queue q from inside its handler
\* (services/hello_world: GET /notify), and a second plain service.
ServiceA ==
    [name |-> Str_a, prefix |-> Str_a, base_url |-> <<"h", "a", "/">>,
     runner_urls |-> <<(<<"h", "a", "/">>), (<<"h", "a", "2">>)>>,
     allowed_get_endpoints |-> {Str_p, Str_n},
     queue_listeners |-> <<[queue |-> Str_q, path |-> <<"/", "c">>]>>]

ServiceB ==
    [name |-> Str_b, prefix |-> Str_b, base_url |-> <<"h", "b">>,
     runner_urls |-> <<(<<"h", "b">>)>>,
     allowed_get_endpoints |-> {Str_p},
     queue_listeners |-> <<[queue |-> Str_q, path |-> <<"/", "c">>],
                           [queue |-> Str_q, path |-> <<"/", "c">>]>>]

Services == <<ServiceA, ServiceB>>

-----------------------------------------------------------------------------
(* queue.rs: the queue registry.                                           *)

QueueInfoDefault == [subscribers |-> <<>>, message_count |-> 0, instantiated |-> FALSE]

\* HashMap::entry(queue).or_insert_with(QueueInfo::default)
EntryOrDefault(reg, queue) ==
    IF queue \in DOMAIN reg THEN reg[queue] ELSE QueueInfoDefault

PutQueue(reg, queue, info) ==
    [k \in DOMAIN reg \cup {queue} |-> IF k = queue THEN info ELSE reg[k]]

SeqContains(s, x) == \E i \in 1..Len(s) : s[i] = x

\* QueueRegistry::register_listener
RegisterListener(reg, queue, listener) ==
    LET entry == EntryOrDefault(reg, queue)
    IN  PutQueue(reg, queue,
            IF SeqContains(entry.subscribers, listener)
            THEN entry
            ELSE [entry EXCEPT !.subscribers = Append(@, listener)])

\* A prepare_delivery that forgets the increment.
PrepareDeliveryNoIncrement(reg, queue) ==
    LET entry == EntryOrDefault(reg, queue)
        next == [entry EXCEPT !.instantiated = TRUE]
    IN  [reg |-> PutQueue(reg, queue, next),
         subscribers |-> next.subscribers,
         message_count |-> next.message_count]

\* A prepare_delivery that inserts a fresh entry instead of reusing the one
\* the queue already has.
PrepareDeliveryFreshEntry(reg, queue) ==
    LET next == [QueueInfoDefault EXCEPT !.instantiated = TRUE, !.message_count = 1]
    IN  [reg |-> PutQueue(reg, queue, next),
         subscribers |-> next.subscribers,
         message_count |-> next.message_count]

\* QueueRegistry::prepare_delivery.  saturating_add(1) is +1 below u64::MAX,
\* and the number of publishes is bounded far below it.
PrepareDelivery(reg, queue) ==
    LET entry == EntryOrDefault(reg, queue)
        next == [entry EXCEPT !.instantiated = TRUE,
                              !.message_count = @ + 1]
    IN  [reg |-> PutQueue(reg, queue, next),
         subscribers |-> next.subscribers,
         message_count |-> next.message_count]

\* The least string of a non-empty set, in str::cmp order.
MinStr(S) == CHOOSE x \in S : \A y \in S : y = x \/ StrLess(x, y)

RECURSIVE SortedStrings(_)
SortedStrings(S) ==
    IF S = {} THEN <<>>
    ELSE LET m == MinStr(S) IN <<m>> \o SortedStrings(S \ {m})

\* A snapshot that lists every queue of the registry, published to or not.
QueueSnapshotListsAll(reg) ==
    LET names == SortedStrings(DOMAIN reg)
    IN  [i \in 1..Len(names) |->
            [name |-> names[i],
             message_count |-> reg[names[i]].message_count,
             subscriber_count |-> Len(reg[names[i]].subscribers)]]

\* QueueRegistry::snapshot: the instantiated queues, sorted by name.
QueueSnapshot(reg) ==
    LET names == SortedStrings({q \in DOMAIN reg : reg[q].instantiated})
    IN  [i \in 1..Len(names) |->
            [name |-> names[i],
             message_count |-> reg[names[i]].message_count,
             subscriber_count |-> Len(reg[names[i]].subscribers)]]

\* register_service_listeners
RECURSIVE RegisterServiceListeners(_, _, _)
RegisterServiceListeners(reg, service, listeners) ==
    IF listeners = <<>> THEN reg
    ELSE LET l == Head(listeners)
             target_url == TrimEndMatches(service.base_url, Slash) \o <<Slash>>
                           \o TrimStartMatches(l.path, Slash)
         IN  RegisterServiceListeners(
                 RegisterListener(reg, l.queue,
                     [service_name |-> service.name, target_url |-> target_url]),
                 service, Tail(listeners))

RECURSIVE RegisterAll(_, _)
RegisterAll(reg, services) ==
    IF services = <<>> THEN reg
    ELSE RegisterAll(
             RegisterServiceListeners(reg, Head(services), Head(services).queue_listeners),
             Tail(services))

\* initialize_queue_registry
InitializeQueueRegistry(services) == RegisterAll(<<>>, services)

MessageCount(reg, queue) == IF queue \in DOMAIN reg THEN reg[queue].message_count ELSE 0

-----------------------------------------------------------------------------
(* stats.rs: the stats store.                                              *)

MAX_MINUTES == 60

SaturatingSub(a, b) == IF a >= b THEN a - b ELSE 0

MapGet(m, k, default) == IF k \in DOMAIN m THEN m[k] ELSE default

MapPut(m, k, v) == [x \in DOMAIN m \cup {k} |-> IF x = k THEN v ELSE m[x]]

\* BTreeMap::retain on the keys
RetainKeys(m, keep(_)) == [x \in {k \in DOMAIN m : keep(k)} |-> m[x]]

\* A record that writes a count of one instead of adding one.
StatsRecordOverwrites(data, service, endpoint, status, timestamp) ==
    IF timestamp < 0 THEN data
    ELSE
    LET minute == timestamp \div 60
        service_entry == MapGet(data, service, <<>>)
        endpoint_entry == MapGet(service_entry, endpoint, <<>>)
        bucket == MapGet(endpoint_entry, minute, <<>>)
        counted == MapPut(endpoint_entry, minute, MapPut(bucket, status, 1))
        cutoff == SaturatingSub(minute, MAX_MINUTES - 1)
        retained == RetainKeys(counted, LAMBDA minute_key : minute_key >= cutoff)
    IN  MapPut(data, service, MapPut(service_entry, endpoint, retained))

\* A record that evicts the old minutes of every endpoint of every service.
StatsRecordEvictsEverywhere(data, service, endpoint, status, timestamp) ==
    IF timestamp < 0 THEN data
    ELSE
    LET minute == timestamp \div 60
        service_entry == MapGet(data, service, <<>>)
        endpoint_entry == MapGet(service_entry, endpoint, <<>>)
        bucket == MapGet(endpoint_entry, minute, <<>>)
        counted == MapPut(endpoint_entry, minute,
                       MapPut(bucket, status, MapGet(bucket, status, 0) + 1))
        cutoff == SaturatingSub(minute, MAX_MINUTES - 1)
        written == MapPut(data, service, MapPut(service_entry, endpoint, counted))
    IN  [s \in DOMAIN written |->
            [e \in DOMAIN written[s] |->
                RetainKeys(written[s][e], LAMBDA minute_key : minute_key >= cutoff)]]

\* A record that never evicts a minute.
StatsRecordKeepsAll(data, service, endpoint, status, timestamp) ==
    IF timestamp < 0 THEN data
    ELSE
    LET minute == timestamp \div 60
        service_entry == MapGet(data, service, <<>>)
        endpoint_entry == MapGet(service_entry, endpoint, <<>>)
        bucket == MapGet(endpoint_entry, minute, <<>>)
        counted == MapPut(endpoint_entry, minute,
                       MapPut(bucket, status, MapGet(bucket, status, 0) + 1))
    IN  MapPut(data, service, MapPut(service_entry, endpoint, counted))

\* StatsStore::record.  timestamp is in seconds relative to the epoch; a time
\* before the epoch makes duration_since fail and nothing is recorded.
StatsRecord(data, service, endpoint, status, timestamp) ==
    IF timestamp < 0 THEN data
    ELSE
    LET minute == timestamp \div 60
        service_entry == MapGet(data, service, <<>>)
        endpoint_entry == MapGet(service_entry, endpoint, <<>>)
        bucket == MapGet(endpoint_entry, minute, <<>>)
        counted == MapPut(endpoint_entry, minute,
                       MapPut(bucket, status, MapGet(bucket, status, 0) + 1))
        cutoff == SaturatingSub(minute, MAX_MINUTES - 1)
        retained == RetainKeys(counted, LAMBDA minute_key : minute_key >= cutoff)
    IN  MapPut(data, service, MapPut(service_entry, endpoint, retained))

\* The count the store holds for a status in a minute of an endpoint, 0 when
\* it holds none.
BucketCount(data, service, endpoint, minute, status) ==
    MapGet(MapGet(MapGet(MapGet(data, service, <<>>), endpoint, <<>>),
                  minute, <<>>), status, 0)

\* record_http_status: the store's lock is taken and the time read under it.
RecordHttpStatus(data, service, endpoint, status, time) ==
    StatsRecord(data, service, endpoint, status, time)

\* The keys of a BTreeMap<u64, _> in iteration order: ascending.
RECURSIVE Ascending(_)
Ascending(S) ==
    IF S = {} THEN <<>>
    ELSE LET m == CHOOSE x \in S : \A y \in S : x <= y
         IN  <<m>> \o Ascending(S \ {m})

\* Every (service, endpoint, minute, status) the store holds a count for:
\* what the four nested loops of snapshot visit.
StoredCounts(data) ==
    UNION {UNION {UNION {{<<service, endpoint, minute, status>> :
                             status \in DOMAIN data[service][endpoint][minute]} :
                         minute \in DOMAIN data[service][endpoint]} :
                  endpoint \in DOMAIN data[service]} :
           service \in DOMAIN data}

\* A global map whose entry takes the last count seen instead of their sum.
AddToGlobalKeepsLast(global_map, minute, status, count) ==
    MapPut(global_map, minute, MapPut(MapGet(global_map, minute, <<>>), status, count))

\* snapshot, the innermost loop: the count goes into the minute's entry of
\* global_map, created empty when missing.
AddToGlobal(global_map, minute, status, count) ==
    LET global_counts == MapGet(global_map, minute, <<>>)
    IN  MapPut(global_map, minute,
               MapPut(global_counts, status, MapGet(global_counts, status, 0) + count))

\* snapshot, the loops over the store.  The HashMaps are visited in an order
\* of their own; the map built is the same for every order.
RECURSIVE GlobalMap(_, _, _)
GlobalMap(data, visit, global_map) ==
    IF visit = {} THEN global_map
    ELSE LET x == CHOOSE y \in visit : TRUE
         IN  GlobalMap(data, visit \ {x},
                       AddToGlobal(global_map, x[3], x[4], data[x[1]][x[2]][x[3]][x[4]]))

\* MinuteAggregate values of a minute -> counts map, sorted by minute.
MinuteAggregates(minutes) ==
    LET keys == Ascending(DOMAIN minutes)
    IN  [i \in 1..Len(keys) |-> [minute |-> keys[i], counts |-> minutes[keys[i]]]]

\* snapshot: the endpoints of one service that hold a minute, sorted by name.
EndpointSnapshots(endpoints) ==
    LET names == SortedStrings({e \in DOMAIN endpoints : DOMAIN endpoints[e] # {}})
    IN  [i \in 1..Len(names) |->
            [endpoint |-> names[i], minutes |-> MinuteAggregates(endpoints[names[i]])]]

\* snapshot: the services that hold an endpoint snapshot, sorted by name.
ServiceSnapshots(data) ==
    LET names == SortedStrings({s \in DOMAIN data : EndpointSnapshots(data[s]) # <<>>})
    IN  [i \in 1..Len(names) |->
            [service |-> names[i], endpoints |-> EndpointSnapshots(data[names[i]])]]

\* StatsStore::snapshot.  A time before the epoch gives generated_at = 0.
StatsSnapshot(data, timestamp) ==
    [generated_at |-> IF timestamp < 0 THEN 0 ELSE timestamp,
     window_minutes |-> MAX_MINUTES,
     global |-> MinuteAggregates(GlobalMap(data, StoredCounts(data), <<>>)),
     services |-> ServiceSnapshots(data)]

NoSnapshot == [taken |-> FALSE, result |-> StatsSnapshot(<<>>, 0)]

-----------------------------------------------------------------------------
(* server.rs: the gateway.  run_server takes one request at a time from    *)
(* tiny_http's queue and runs handle_request to its end before taking the  *)
(* next one.                                                               *)

RunnerQueuesPrefix ==
    <<"_", "_", "r", "u", "n", "n", "e", "r", "_", "_", "/",
      "q", "u", "e", "u", "e", "s", "/">>

RunnerServicesPrefix ==
    <<"_", "_", "r", "u", "n", "n", "e", "r", "_", "_", "/",
      "s", "e", "r", "v", "i", "c", "e", "s", "/">>

RunnerStatsPath ==
    <<"_", "_", "r", "u", "n", "n", "e", "r", "_", "_", "/", "s", "t", "a", "t", "s">>

HealthPath == <<"h", "e", "a", "l", "t", "h">>

\* resolve_service_route: the first service of the list whose prefix starts
\* the path and leaves a non-empty endpoint.
RECURSIVE ResolveFrom(_, _, _)
ResolveFrom(services, i, trimmed_path) ==
    IF i > Len(services) THEN [some |-> FALSE, index |-> 0, endpoint |-> <<>>]
    ELSE LET stripped == StripPrefix(trimmed_path, services[i].prefix)
             endpoint_path == TrimStartMatches(stripped.rest, Slash)
         IN  IF stripped.some /\ endpoint_path # <<>>
             THEN [some |-> TRUE, index |-> i, endpoint |-> endpoint_path]
             ELSE ResolveFrom(services, i + 1, trimmed_path)

ResolveServiceRoute(services, trimmed_path) == ResolveFrom(services, 1, trimmed_path)

\* handle_request, lines 62-108: which handler the method and path select.
Dispatch(method, path) ==
    LET trimmed_path == TrimStartMatches(path, Slash)
        asQueue == StripPrefix(trimmed_path, RunnerQueuesPrefix)
        asService == StripPrefix(trimmed_path, RunnerServicesPrefix)
    IN  IF method = "POST"
        THEN IF asQueue.some THEN [route |-> "queue_publish", rest |-> asQueue.rest]
             ELSE IF asService.some THEN [route |-> "service_control", rest |-> asService.rest]
             ELSE [route |-> "post_not_found", rest |-> trimmed_path]
        ELSE IF method # "GET" THEN [route |-> "method_not_allowed", rest |-> trimmed_path]
        ELSE IF trimmed_path = HealthPath THEN [route |-> "health", rest |-> trimmed_path]
        ELSE IF trimmed_path = <<>> THEN [route |-> "homepage", rest |-> trimmed_path]
        ELSE IF trimmed_path = RunnerStatsPath THEN [route |-> "stats", rest |-> trimmed_path]
        ELSE IF asService.some THEN [route |-> "service_request", rest |-> asService.rest]
        ELSE [route |-> "proxy", rest |-> trimmed_path]

Respond(code) == [op |-> "respond", status |-> code, service |-> 0, endpoint |-> <<>>]
RecordStatus(i, e, code) == [op |-> "record", status |-> code, service |-> i, endpoint |-> e]
CallUpstream(i, e) == [op |-> "call", status |-> 0, service |-> i, endpoint |-> e]
ReturnErr == [op |-> "error", status |-> 0, service |-> 0, endpoint |-> <<>>]

\* A proxy branch that counts the rejected request before answering 404.
ProxyPlanRecordsRejected(services, method, trimmed_path) ==
    LET r == ResolveServiceRoute(services, trimmed_path)
    IN  IF ~r.some THEN <<Respond(404)>>
        ELSE IF ~Supports(services[r.index], method, r.endpoint)
             THEN <<RecordStatus(r.index, r.endpoint, 404), Respond(404)>>
             ELSE <<CallUpstream(r.index, r.endpoint)>>

\* handle_request, lines 110-133: what the proxy branch does, in order, up to
\* its upstream call.
ProxyPlan(services, method, trimmed_path) ==
    LET r == ResolveServiceRoute(services, trimmed_path)
    IN  IF ~r.some THEN <<Respond(404)>>
        ELSE IF ~Supports(services[r.index], method, r.endpoint) THEN <<Respond(404)>>
        ELSE <<CallUpstream(r.index, r.endpoint)>>

\* handle_request, lines 133-152: what it does with the upstream's answer.
\* build_response fails when the upstream body cannot be read, and its `?`
\* makes handle_request return before request.respond.
ReplyPlan(service, endpoint, outcome) ==
    IF outcome.kind = "transport"
    THEN <<RecordStatus(service, endpoint, 502), Respond(502)>>
    ELSE <<RecordStatus(service, endpoint, outcome.status),
           IF outcome.body_ok THEN Respond(outcome.status) ELSE ReturnErr>>

\* Runs a plan.  A request dropped without an answer is answered 500 by
\* tiny_http's Drop for Request.
RECURSIVE RunPlan(_, _)
RunPlan(plan, acc) ==
    IF plan = <<>> THEN acc
    ELSE LET step == Head(plan)
             next ==
               CASE step.op = "respond" -> [acc EXCEPT !.status = step.status]
                 [] step.op = "error" -> [acc EXCEPT !.status = 500]
                 [] step.op = "record" ->
                      [acc EXCEPT
                         !.data = RecordHttpStatus(@, Services[step.service].name,
                                                   step.endpoint, step.status, acc.time),
                         !.recorded = Append(@, step.status)]
                 [] step.op = "call" ->
                      [acc EXCEPT !.calls = @ + 1, !.service = step.service,
                                  !.endpoint = step.endpoint]
         IN  RunPlan(Tail(plan), next)

Get(path) == [method |-> "GET", path |-> path, from |-> "client"]
Post(path) == [method |-> "POST", path |-> path, from |-> "client"]

\* The requests clients send in this model.
ClientRequests ==
    { Get(<<"/", "a", "/", "p">>),          \* forwarded to service a
      Get(<<"/", "a", "/", "n">>),          \* forwarded; the handler publishes
      Get(<<"/", "b", "/", "p">>),          \* forwarded to service b
      Get(<<"/", "a", "/", "x">>),          \* endpoint not allowed
      Get(<<"/", "z", "/", "p">>),          \* unknown prefix
      Get(<<"/", "a", "/">>),               \* empty endpoint
      Post(<<"/", "a", "/", "p">>),         \* POST outside the control paths
      [method |-> "PUT", path |-> <<"/", "a", "/", "p">>, from |-> "client"],
      Post(<<"/">> \o RunnerQueuesPrefix \o Str_q),
      Get(<<"/">>),
      Get(<<"/">> \o HealthPath) }

\* The publish the service sends from inside its notify handler.
NotifyPublish ==
    [method |-> "POST", path |-> <<"/">> \o RunnerQueuesPrefix \o Str_q, from |-> "service"]

NoRequest == [method |-> "", path |-> <<>>, from |-> ""]

GwIdle ==
    [pc |-> "idle", req |-> NoRequest, service |-> 0, endpoint |-> <<>>,
     queue |-> <<>>, subs |-> <<>>, count |-> 0, i |-> 0, attempts |-> <<>>,
     calls |-> 0, target |-> <<>>]

NoBody == [queue |-> <<>>, subscribers |-> 0, message_count |-> 0]

NothingDone ==
    [req |-> NoRequest, status |-> 0, origin |-> "", calls |-> 0, recorded |-> <<>>,
     subs |-> <<>>, count |-> 0, attempts |-> <<>>, body |-> NoBody,
     service |-> 0, target |-> <<>>]

SvcIdle == [pc |-> "idle", status |-> 0]

GwInit ==
    /\ inbox = <<>>
    /\ nreq = 0
    /\ gw = GwIdle
    /\ svc = SvcIdle
    /\ queues = InitializeQueueRegistry(Services)
    /\ done = NothingDone
    /\ prepLog = <<>>
    /\ published = <<>>
    /\ qsnaps = <<QueueSnapshot(queues), QueueSnapshot(queues)>>

StatsInit ==
    /\ stats = <<>>
    /\ nrec = 0
    /\ now = 0
    /\ snap = NoSnapshot

\* A client sends a request; tiny_http accepts and queues it.
ClientRequest(r) ==
    /\ r \in ClientRequests
    /\ nreq < MaxRequests
    /\ nreq' = nreq + 1
    /\ inbox' = Append(inbox, r)
    /\ UNCHANGED <<gw, svc, queues, done, prepLog, published, qsnaps, statsVars, outsideGateway>>

\* The loop answers the request it holds and goes back for the next one.
Finish(req, result) ==
    /\ done' = result
    /\ gw' = GwIdle
    /\ svc' = IF req.from = "service"
              THEN [pc |-> "answered", status |-> result.status]
              ELSE svc

Answered(req, code, origin) ==
    [NothingDone EXCEPT !.req = req, !.status = code, !.origin = origin]

Taking(route) ==
    /\ gw.pc = "idle"
    /\ manual.pc = "idle"
    /\ inbox # <<>>
    /\ Dispatch(Head(inbox).method, Head(inbox).path).route = route
    /\ inbox' = Tail(inbox)

\* GET /health
GwHealth ==
    /\ Taking("health")
    /\ Finish(Head(inbox), Answered(Head(inbox), 200, "gateway"))
    /\ UNCHANGED <<nreq, queues, prepLog, published, qsnaps, statsVars, outsideGateway>>

\* render_homepage: render_domain_sections clones the schedule map under its
\* lock, then render_queue_section takes a snapshot of the queue registry.
RenderHomepage ==
    /\ ssnap' = sched
    /\ qsnaps' = <<qsnaps[2], QueueSnapshot(queues)>>

\* GET /: the dashboard.
GwHomepage ==
    /\ Taking("homepage")
    /\ RenderHomepage
    /\ Finish(Head(inbox), Answered(Head(inbox), 200, "gateway"))
    /\ UNCHANGED <<nreq, queues, prepLog, published, statsVars, sched, timer,
                   manual, clock, lastStored, toggles, routeVars, loadVars, hostVars>>

\* POST outside /__runner__/queues/ and /__runner__/services/
GwPostNotFound ==
    /\ Taking("post_not_found")
    /\ Finish(Head(inbox), Answered(Head(inbox), 404, "routing"))
    /\ UNCHANGED <<nreq, queues, prepLog, published, qsnaps, statsVars, outsideGateway>>

\* A method other than GET and POST
GwMethodNotAllowed ==
    /\ Taking("method_not_allowed")
    /\ Finish(Head(inbox), Answered(Head(inbox), 405, "gateway"))
    /\ UNCHANGED <<nreq, queues, prepLog, published, qsnaps, statsVars, outsideGateway>>

\* handle_queue_publish up to its first delivery: the name check and
\* prepare_delivery under the registry's lock; with_queue_registry fails on
\* a poisoned lock and the handler answers 500.
GwPublish ==
    /\ Taking("queue_publish")
    /\ LET req == Head(inbox)
           queue_name == Trim(Dispatch(req.method, req.path).rest)
           prepared == PrepareDelivery(queues, queue_name)
       IN  IF queue_name = <<>>
           THEN /\ Finish(req, Answered(req, 400, "gateway"))
                /\ UNCHANGED <<queues, prepLog, published>>
           ELSE IF "queues" \in poisoned
           THEN /\ Finish(req, Answered(req, 500, "gateway"))
                /\ UNCHANGED <<queues, prepLog, published>>
           ELSE /\ queues' = prepared.reg
                /\ prepLog' = MapPut(prepLog, queue_name,
                                  Append(MapGet(prepLog, queue_name, <<>>),
                                         prepared.message_count))
                /\ published' = MapPut(published, queue_name,
                                    MapGet(published, queue_name, 0) + 1)
                /\ gw' = [GwIdle EXCEPT !.pc = "deliver", !.req = req,
                                        !.queue = queue_name,
                                        !.subs = prepared.subscribers,
                                        !.count = prepared.message_count,
                                        !.i = 1]
                /\ UNCHANGED <<svc, done>>
    /\ UNCHANGED <<nreq, qsnaps, statsVars, outsideGateway>>

\* A delivery loop that gives up at the first failed delivery.
AfterAttemptStopsOnFailure(i, n, ok) == IF ok THEN i + 1 ELSE n + 1

\* A delivery loop that passes over the subscriber after a failed one.
AfterAttemptSkipsNext(i, n, ok) == IF ok THEN i + 1 ELSE i + 2

\* handle_queue_publish, lines 346-361: where the loop over the n subscribers
\* stands after the attempt on subscriber i; a failure is only logged.
AfterAttempt(i, n, ok) == i + 1

\* One delivery of the loop over the subscribers: a POST that succeeds or
\* fails; a failure is logged and the loop goes on.
GwDeliver(ok) ==
    /\ gw.pc = "deliver"
    /\ gw.i <= Len(gw.subs)
    /\ gw' = [gw EXCEPT !.i = AfterAttempt(gw.i, Len(gw.subs), ok),
                        !.attempts = Append(@, [to |-> gw.subs[gw.i], ok |-> ok])]
    /\ UNCHANGED <<inbox, nreq, svc, queues, done, prepLog, published, qsnaps, statsVars, outsideGateway>>

\* A response body that reports the count the queue had before this publish.
PublishResponseBodyStaleCount(queue_name, subscribers, message_count) ==
    [queue |-> queue_name, subscribers |-> Len(subscribers),
     message_count |-> message_count - 1]

\* handle_queue_publish, lines 363-368: the JSON body of the 202.
PublishResponseBody(queue_name, subscribers, message_count) ==
    [queue |-> queue_name, subscribers |-> Len(subscribers),
     message_count |-> message_count]

\* After the last delivery: 202 with the subscriber and message counts.
GwPublishRespond ==
    /\ gw.pc = "deliver"
    /\ gw.i > Len(gw.subs)
    /\ Finish(gw.req, [Answered(gw.req, 202, "gateway") EXCEPT
                          !.subs = gw.subs, !.count = gw.count,
                          !.attempts = gw.attempts,
                          !.body = PublishResponseBody(gw.queue, gw.subs, gw.count)])
    /\ UNCHANGED <<inbox, nreq, queues, prepLog, published, qsnaps, statsVars, outsideGateway>>

PlanStart(service, endpoint, calls) ==
    [data |-> stats, time |-> now, service |-> service, endpoint |-> endpoint,
     status |-> 0, calls |-> calls, recorded |-> <<>>]

\* handle_request, lines 122-126: the URL of the upstream call.
TargetUrl(service, endpoint_path) ==
    TrimEndMatches(service.base_url, Slash) \o <<Slash>> \o endpoint_path

\* The proxy branch up to the upstream call (or to its 404).
GwProxy ==
    /\ Taking("proxy")
    /\ LET req == Head(inbox)
           plan == ProxyPlan(Services, req.method, TrimStartMatches(req.path, Slash))
           result == RunPlan(plan, PlanStart(0, <<>>, 0))
       IN  /\ stats' = result.data
           /\ IF result.status # 0
              THEN Finish(req, [Answered(req, result.status, "routing") EXCEPT
                                   !.calls = result.calls,
                                   !.recorded = result.recorded])
              ELSE /\ gw' = [GwIdle EXCEPT !.pc = "upstream", !.req = req,
                                           !.service = result.service,
                                           !.endpoint = result.endpoint,
                                           !.calls = result.calls,
                                           !.target = TargetUrl(Services[result.service],
                                                                result.endpoint)]
                   /\ UNCHANGED <<svc, done>>
    /\ UNCHANGED <<nreq, queues, prepLog, published, qsnaps, nrec, now, snap, outsideGateway>>

\* The endpoint of service a whose handler publishes to the runner.
IsNotify(g) == g.service = 1 /\ g.endpoint = Str_n

\* What the upstream can answer: 2xx (ureq's Ok), 4xx/5xx (ureq's
\* Error::Status), each with a body that can or cannot be read, or no answer
\* at all (a transport error).
UpstreamOutcomes ==
    { [kind |-> "ok", status |-> 200, body_ok |-> TRUE],
      [kind |-> "ok", status |-> 200, body_ok |-> FALSE],
      [kind |-> "status", status |-> 404, body_ok |-> TRUE],
      [kind |-> "status", status |-> 500, body_ok |-> TRUE],
      [kind |-> "transport", status |-> 0, body_ok |-> TRUE] }

\* The notify handler answers once its own publish has been answered: 202
\* when the runner accepted it, 500 otherwise.
NotifyOutcomes ==
    IF svc.pc = "idle" THEN {[kind |-> "transport", status |-> 0, body_ok |-> TRUE]}
    ELSE IF svc.pc = "answered"
    THEN {IF svc.status \in 200..299
          THEN [kind |-> "ok", status |-> 202, body_ok |-> TRUE]
          ELSE [kind |-> "status", status |-> 500, body_ok |-> TRUE]}
    ELSE {}

\* services/hello_world, publish_greeting_event: the handler of notify sends a
\* POST to the runner's queue endpoint and waits for the answer.
ServicePublish ==
    /\ gw.pc = "upstream"
    /\ IsNotify(gw)
    /\ svc.pc = "idle"
    /\ svc' = [pc |-> "waiting", status |-> 0]
    /\ inbox' = Append(inbox, NotifyPublish)
    /\ UNCHANGED <<nreq, gw, queues, done, prepLog, published, qsnaps, statsVars, outsideGateway>>

\* The upstream call returns: record the status, build and send the response.
GwUpstreamReply(outcome) ==
    /\ gw.pc = "upstream"
    /\ outcome \in (IF IsNotify(gw) THEN NotifyOutcomes ELSE UpstreamOutcomes)
    /\ LET result == RunPlan(ReplyPlan(gw.service, gw.endpoint, outcome),
                             PlanStart(gw.service, gw.endpoint, gw.calls))
       IN  /\ stats' = result.data
           /\ done' = [Answered(gw.req, result.status, "upstream") EXCEPT
                          !.calls = result.calls, !.recorded = result.recorded,
                          !.service = gw.service, !.target = gw.target]
    /\ gw' = GwIdle
    /\ svc' = SvcIdle
    /\ UNCHANGED <<inbox, nreq, queues, prepLog, published, qsnaps, nrec, now, snap, outsideGateway>>

\* A minute passes.  The only reader of the wall clock is record_http_status,
\* after an upstream call, so the clock moves while such a call is in flight.
Tick ==
    /\ gw.pc = "upstream"
    /\ now < 60 * MaxClockSteps
    /\ now' = now + 60
    /\ UNCHANGED <<gwVars, stats, nrec, snap, outsideGateway>>

\* A client of the queue endpoints sends a publish or asks for the dashboard.
QueueRequests ==
    { Post(<<"/">> \o RunnerQueuesPrefix \o Str_q),
      Post(<<"/">> \o RunnerQueuesPrefix \o Str_r),
      Post(<<"/">> \o RunnerQueuesPrefix \o <<" ">>),
      Get(<<"/">>) }

QueueClientRequest(r) ==
    /\ r \in QueueRequests
    /\ nreq < MaxQueueRequests
    /\ nreq' = nreq + 1
    /\ inbox' = Append(inbox, r)
    /\ UNCHANGED <<gw, svc, queues, done, prepLog, published, qsnaps, statsVars, outsideGateway>>

-----------------------------------------------------------------------------
(* scheduler.rs: the webhook scheduler.  Option values are sequences: <<>>  *)
(* is None and <<x>> is Some(x).                                           *)

SCHEDULE_LOOP_TICK_SECS == 1

None == <<>>
Some(x) == <<x>>

Max(a, b) == IF a >= b THEN a ELSE b

\* The service that has schedules, and a name no service has.
SchedService ==
    [name |-> Str_a, base_url |-> <<"h", "a">>,
     schedules |-> <<[endpoint |-> Str_p, interval_secs |-> 2]>>]

\* A configured service that declares no schedules.
PlainService == [name |-> Str_b, base_url |-> <<"h", "b">>, schedules |-> <<>>]

SchedServices == <<SchedService, PlainService>>

UnknownService == <<"z">>

\* services.iter().any(|service| service.name == service_name)
Configured(services, service_name) ==
    \E k \in 1..Len(services) : services[k].name = service_name

\* start_webhook_schedulers: the initial entries of a service.
InitialEntries(service) ==
    [i \in 1..Len(service.schedules) |->
        [endpoint |-> service.schedules[i].endpoint,
         interval_secs |-> service.schedules[i].interval_secs,
         paused |-> FALSE, last_run |-> None, last_status |-> None,
         last_error |-> None]]

\* Vec::get(index) with a 0-based index.
HasIndex(entries, index) == index + 1 \in 1..Len(entries)

\* A toggle that always pauses.
ToggleSchedulePauses(map, service_name, index) ==
    IF service_name \notin DOMAIN map
    THEN [result |-> "ServiceNotFound", paused |-> FALSE, map |-> map]
    ELSE IF ~HasIndex(map[service_name], index)
    THEN [result |-> "ScheduleNotFound", paused |-> FALSE, map |-> map]
    ELSE [result |-> "Ok", paused |-> TRUE,
          map |-> [map EXCEPT ![service_name][index + 1].paused = TRUE]]

\* A toggle that reports every missing target as a missing schedule.
ToggleScheduleOneError(map, service_name, index) ==
    IF service_name \notin DOMAIN map
    THEN [result |-> "ScheduleNotFound", paused |-> FALSE, map |-> map]
    ELSE IF ~HasIndex(map[service_name], index)
    THEN [result |-> "ScheduleNotFound", paused |-> FALSE, map |-> map]
    ELSE LET flipped == ~map[service_name][index + 1].paused
         IN  [result |-> "Ok", paused |-> flipped,
              map |-> [map EXCEPT ![service_name][index + 1].paused = flipped]]

\* toggle_schedule, under the map's lock.
ToggleSchedule(map, service_name, index) ==
    IF service_name \notin DOMAIN map
    THEN [result |-> "ServiceNotFound", paused |-> FALSE, map |-> map]
    ELSE IF ~HasIndex(map[service_name], index)
    THEN [result |-> "ScheduleNotFound", paused |-> FALSE, map |-> map]
    ELSE LET flipped == ~map[service_name][index + 1].paused
         IN  [result |-> "Ok", paused |-> flipped,
              map |-> [map EXCEPT ![service_name][index + 1].paused = flipped]]

\* A tick that fires whenever the schedule is not paused.
TickDecisionFiresWhenRunning(paused, remaining, interval) ==
    IF paused THEN [remaining |-> interval, fire |-> FALSE]
    ELSE [remaining |-> interval, fire |-> TRUE]

\* A tick that does not look at the paused flag.
TickDecisionIgnoresPause(paused, remaining, interval) ==
    IF remaining > SCHEDULE_LOOP_TICK_SECS
    THEN [remaining |-> remaining - SCHEDULE_LOOP_TICK_SECS, fire |-> FALSE]
    ELSE [remaining |-> interval, fire |-> TRUE]

\* A tick that counts the remaining seconds down to zero before it fires.
TickDecisionOneLate(paused, remaining, interval) ==
    IF paused THEN [remaining |-> interval, fire |-> FALSE]
    ELSE IF remaining > 0
    THEN [remaining |-> remaining - SCHEDULE_LOOP_TICK_SECS, fire |-> FALSE]
    ELSE [remaining |-> interval, fire |-> TRUE]

\* run_schedule, lines 165-175: what a tick does after reading paused.
TickDecision(paused, remaining, interval) ==
    IF paused THEN [remaining |-> interval, fire |-> FALSE]
    ELSE IF remaining > SCHEDULE_LOOP_TICK_SECS
    THEN [remaining |-> remaining - SCHEDULE_LOOP_TICK_SECS, fire |-> FALSE]
    ELSE [remaining |-> interval, fire |-> TRUE]

\* A state update that also wakes the schedule up.
StoreOutcomeUnpauses(state, at, status, error) ==
    [state EXCEPT !.last_run = Some(at), !.last_status = status,
                  !.last_error = error, !.paused = FALSE]

\* A state update that leaves the error of the previous run in place when the
\* new run has none.
StoreOutcomeKeepsError(state, at, status, error) ==
    [state EXCEPT !.last_run = Some(at), !.last_status = status,
                  !.last_error = IF error = None THEN @ ELSE error]

\* A state update that stores the status of a run and never its error.
StoreOutcomeDropsError(state, at, status, error) ==
    [state EXCEPT !.last_run = Some(at), !.last_status = status,
                  !.last_error = None]

\* The state update of a run, in one critical section (run_schedule lines
\* 190-198, trigger_schedule_now lines 122-132).
StoreOutcome(state, at, status, error) ==
    [state EXCEPT !.last_run = Some(at), !.last_status = status,
                  !.last_error = error]

\* execute_webhook: Ok(status) for any HTTP answer, Err(message) otherwise.
WebhookResults ==
    { [status |-> Some(200), error |-> None],
      [status |-> Some(500), error |-> None],
      [status |-> None, error |-> Some("transport")] }

Outcome(state) ==
    [last_run |-> state.last_run, last_status |-> state.last_status,
     last_error |-> state.last_error]

NeverRun == [last_run |-> None, last_status |-> None, last_error |-> None]

TimerStart(schedule) ==
    [pc |-> "sleep", remaining |-> Max(schedule.interval_secs, 1),
     status |-> None, error |-> None, stale |-> FALSE]

\* The last state update: the run that made it, whether the other kind of
\* run was in flight at that moment, and what it wrote.
NothingStored == [who |-> "nobody", overlapped |-> FALSE, outcome |-> NeverRun]

ManualIdle ==
    [pc |-> "idle", op |-> "", service |-> <<>>, index |-> 0, status |-> None,
     error |-> None, at |-> 0, answer |-> 0, result |-> "", paused |-> FALSE]

\* start_webhook_schedulers, lines 35-54: the map holds the services that
\* declare schedules.
RECURSIVE InitialMap(_)
InitialMap(services) ==
    IF services = <<>> THEN <<>>
    ELSE LET service == Head(services)
             rest == InitialMap(Tail(services))
         IN  IF service.schedules = <<>> THEN rest
             ELSE MapPut(rest, service.name, InitialEntries(service))

SchedInit ==
    /\ sched = InitialMap(SchedServices)
    /\ timer = [i \in 1..Len(SchedService.schedules) |-> TimerStart(SchedService.schedules[i])]
    /\ manual = ManualIdle
    /\ clock = 0
    /\ lastStored = NothingStored
    /\ ssnap = sched
    /\ toggles = <<>>

outsideScheduler == <<gwVars, statsVars, routeVars, loadVars, hostVars>>

\* The last two entries of the toggle history after one more toggle.
Remember(history, entry) ==
    IF Len(history) = 2 THEN <<history[2], entry>> ELSE Append(history, entry)

\* POST /__runner__/services/<name>/schedules/<index>/toggle:
\* handle_internal_service_control answers 404 for a service that is not
\* configured, handle_schedule_request calls toggle_schedule otherwise.
ToggleEffect(service_name, index) ==
    /\ IF ~Configured(SchedServices, service_name)
       THEN /\ manual' = [ManualIdle EXCEPT !.op = "toggle", !.answer = 404,
                                            !.service = service_name, !.index = index]
            /\ UNCHANGED <<sched, timer, toggles>>
       ELSE IF "schedules" \in poisoned
       THEN /\ manual' = [ManualIdle EXCEPT !.op = "toggle", !.result = "LockPoisoned",
                                            !.answer = 503,
                                            !.service = service_name, !.index = index]
            /\ UNCHANGED <<sched, timer, toggles>>
       ELSE LET t == ToggleSchedule(sched, service_name, index)
            IN  /\ sched' = t.map
                /\ manual' = [ManualIdle EXCEPT
                                 !.op = "toggle", !.result = t.result,
                                 !.answer = IF t.result = "Ok" THEN 200 ELSE 404,
                                 !.paused = t.paused, !.service = service_name,
                                 !.index = index]
                /\ timer' = IF t.result = "Ok" /\ service_name = SchedService.name
                            THEN [timer EXCEPT ![index + 1].stale = TRUE]
                            ELSE timer
                /\ toggles' = IF t.result = "Ok"
                              THEN Remember(toggles,
                                       [before |-> sched[service_name][index + 1].paused,
                                        returned |-> t.paused])
                              ELSE toggles

\* The toggle endpoint called with a service name and an index.
GwToggle(service_name, index) ==
    /\ manual.pc = "idle"
    /\ gw.pc = "idle"
    /\ ToggleEffect(service_name, index)
    /\ UNCHANGED <<clock, lastStored, ssnap, outsideScheduler>>

\* A run endpoint that refuses to run a paused schedule.
RunEffectSkipsPaused(service_name, index) ==
    /\ IF \E k \in 1..Len(SchedServices) :
             /\ SchedServices[k].name = service_name
             /\ HasIndex(SchedServices[k].schedules, index)
             /\ ~sched[service_name][index + 1].paused
       THEN manual' = [ManualIdle EXCEPT !.pc = "call", !.op = "run",
                                         !.service = service_name, !.index = index]
       ELSE manual' = [ManualIdle EXCEPT !.op = "run", !.answer = 404,
                                         !.service = service_name, !.index = index]

\* POST /__runner__/services/<name>/schedules/<index>/run, up to the webhook
\* call of trigger_schedule_now: the service and the schedule are looked up in
\* the configuration.
RunEffect(service_name, index) ==
    /\ IF \E k \in 1..Len(SchedServices) :
             /\ SchedServices[k].name = service_name
             /\ HasIndex(SchedServices[k].schedules, index)
       THEN manual' = [ManualIdle EXCEPT !.pc = "call", !.op = "run",
                                         !.service = service_name, !.index = index]
       ELSE manual' = [ManualIdle EXCEPT !.op = "run", !.answer = 404,
                                         !.service = service_name, !.index = index]

\* The run endpoint called with a service name and an index.
GwRun(service_name, index) ==
    /\ manual.pc = "idle"
    /\ gw.pc = "idle"
    /\ RunEffect(service_name, index)
    /\ UNCHANGED <<sched, timer, clock, lastStored, ssnap, toggles, outsideScheduler>>

\* trigger_schedule_now: the webhook returns and Instant::now() is read,
\* before the lock is taken.
ManualWebhook(result) ==
    /\ manual.pc = "call"
    /\ manual' = [manual EXCEPT !.pc = "store", !.status = result.status,
                                !.error = result.error, !.at = clock]
    /\ UNCHANGED <<sched, timer, clock, lastStored, ssnap, toggles, outsideScheduler>>

TimerInFlight == \E i \in DOMAIN timer : timer[i].pc \in {"fire", "store"}

\* trigger_schedule_now: the state update under the lock, and the answer.
ManualStore ==
    /\ manual.pc = "store"
    /\ LET found == manual.service \in DOMAIN sched
                    /\ HasIndex(sched[manual.service], manual.index)
           next == StoreOutcome(sched[manual.service][manual.index + 1],
                                manual.at, manual.status, manual.error)
       IN  IF "schedules" \in poisoned
           THEN /\ manual' = [ManualIdle EXCEPT !.op = "run", !.result = "LockPoisoned",
                                                !.answer = 503]
                /\ UNCHANGED <<sched, lastStored>>
           ELSE IF found
           THEN /\ sched' = [sched EXCEPT ![manual.service][manual.index + 1] = next]
                /\ lastStored' = [who |-> "manual", overlapped |-> TimerInFlight,
                                  outcome |-> [last_run |-> Some(manual.at),
                                               last_status |-> manual.status,
                                               last_error |-> manual.error]]
                /\ manual' = [ManualIdle EXCEPT !.op = "run", !.answer = 200]
           ELSE /\ manual' = [ManualIdle EXCEPT !.op = "run", !.answer = 404]
                /\ UNCHANGED <<sched, lastStored>>
    /\ UNCHANGED <<timer, clock, ssnap, toggles, outsideScheduler>>

\* run_schedule: the sleep ends, paused is read under the lock and the tick
\* decides whether to fire.
TimerCheck(i) ==
    /\ timer[i].pc = "sleep"
    /\ IF SchedService.name \in DOMAIN sched /\ HasIndex(sched[SchedService.name], i - 1)
       THEN LET d == TickDecision(sched[SchedService.name][i].paused,
                                  timer[i].remaining,
                                  Max(SchedService.schedules[i].interval_secs, 1))
            IN  timer' = [timer EXCEPT ![i].remaining = d.remaining,
                                       ![i].pc = IF d.fire THEN "fire" ELSE "sleep",
                                       ![i].stale = FALSE]
       ELSE timer' = [timer EXCEPT ![i].pc = "exit"]
    /\ UNCHANGED <<sched, manual, clock, lastStored, ssnap, toggles, outsideScheduler>>

\* run_schedule: the webhook call of a firing tick, with no lock held.
TimerWebhook(i, result) ==
    /\ timer[i].pc = "fire"
    /\ timer' = [timer EXCEPT ![i].pc = "store", ![i].status = result.status,
                              ![i].error = result.error]
    /\ UNCHANGED <<sched, manual, clock, lastStored, ssnap, toggles, outsideScheduler>>

\* run_schedule: the state update under the lock; Instant::now() is read
\* inside the critical section.
TimerStore(i) ==
    /\ timer[i].pc = "store"
    /\ IF SchedService.name \in DOMAIN sched /\ HasIndex(sched[SchedService.name], i - 1)
       THEN /\ sched' = [sched EXCEPT ![SchedService.name][i] =
                            StoreOutcome(@, clock, timer[i].status, timer[i].error)]
            /\ lastStored' = [who |-> "timer", overlapped |-> manual.pc # "idle",
                              outcome |-> [last_run |-> Some(clock),
                                           last_status |-> timer[i].status,
                                           last_error |-> timer[i].error]]
       ELSE UNCHANGED <<sched, lastStored>>
    /\ timer' = [timer EXCEPT ![i].pc = "sleep", ![i].status = None,
                              ![i].error = None]
    /\ UNCHANGED <<manual, clock, ssnap, toggles, outsideScheduler>>

\* GET / served by the gateway thread between two schedule requests.
GwScheduleSnapshot ==
    /\ manual.pc = "idle"
    /\ RenderHomepage
    /\ UNCHANGED <<sched, timer, manual, clock, lastStored, toggles, inbox, nreq, gw, svc,
                   queues, done, prepLog, published, statsVars, routeVars, loadVars, hostVars>>

\* Time passes.
ClockAdvance ==
    /\ clock < MaxClock
    /\ clock' = clock + 1
    /\ UNCHANGED <<sched, timer, manual, lastStored, ssnap, toggles, outsideScheduler>>

-----------------------------------------------------------------------------
(* stats.rs called directly: StatsStore::record with a timestamp the caller *)
(* chooses, as the unit tests do.                                          *)

\* Timestamps in seconds: before the epoch, minutes 0 (twice), 1, 59, 60
\* and 120.
RecordTimes == {-1, 0, 59, 60, 3599, 3600, 7200}

RecordKeys == {<<Str_a, Str_p>>, <<Str_a, Str_n>>, <<Str_b, Str_p>>}

RecordStatuses == {200, 404}

StatsRecordCall(key, status, timestamp) ==
    /\ nrec < MaxRecords
    /\ nrec' = nrec + 1
    /\ stats' = StatsRecord(stats, key[1], key[2], status, timestamp)
    /\ snap' = NoSnapshot
    /\ UNCHANGED <<now, gwVars, schedVars, routeVars, loadVars, hostVars>>

\* Timestamps a snapshot is asked for: before the epoch, and minute 1.
SnapshotTimes == {-1, 60}

\* StatsStore::snapshot called on the store as it is.
StatsSnapshotCall(timestamp) ==
    /\ ~snap.taken
    /\ snap' = [taken |-> TRUE, result |-> StatsSnapshot(stats, timestamp)]
    /\ UNCHANGED <<stats, nrec, now, gwVars, schedVars, routeVars, loadVars, hostVars>>

-----------------------------------------------------------------------------
(* server.rs: routing alone, over service lists and paths drawn from small *)
(* sets.  The lists are as load_services returns them: sorted by name,     *)
(* names distinct; the prefixes here are distinct single path segments.    *)

RoutePrefixes ==
    {<<"a">>, <<"b">>, <<"a", "a">>, <<"a", "b">>, <<"b", "a">>, <<"b", "b">>}

RouteEndpoints == {<<>>, Str_p, <<"x">>}

\* Paths after trim_start_matches('/'): one segment, with or without a
\* slash and an endpoint after it.
RoutePaths ==
    RoutePrefixes
    \cup {s \o <<Slash>> \o e : s \in RoutePrefixes, e \in RouteEndpoints}
    \cup {<<"a", "p">>, <<"b", "p">>}

RouteService(name, prefix) ==
    [name |-> name, prefix |-> prefix, base_url |-> <<"h">> \o name,
     allowed_get_endpoints |-> {Str_p}, queue_listeners |-> <<>>]

RouteServiceLists ==
    { <<RouteService(Str_a, pp[1]), RouteService(Str_b, pp[2])>> :
        pp \in {qq \in RoutePrefixes \X RoutePrefixes : qq[1] # qq[2]} }
    \cup { <<RouteService(Str_a, p1)>> : p1 \in RoutePrefixes }

RoutePending == [answered |-> FALSE, status |-> 0, service |-> <<>>, endpoint |-> <<>>]

RouteInit ==
    /\ rin \in [services : RouteServiceLists, path : RoutePaths]
    /\ rout = RoutePending

RouteParked ==
    /\ rin = [services |-> Services, path |-> <<>>]
    /\ rout = RoutePending

\* handle_request on GET /<path>: 404, or the service and endpoint of the
\* upstream call.
RouteRequest ==
    /\ ~rout.answered
    /\ LET plan == ProxyPlan(rin.services, "GET", rin.path)
           step == Head(plan)
       IN  rout' = IF step.op = "call"
                   THEN [answered |-> TRUE, status |-> 0,
                         service |-> rin.services[step.service].name,
                         endpoint |-> step.endpoint]
                   ELSE [answered |-> TRUE, status |-> step.status,
                         service |-> <<>>, endpoint |-> <<>>]
    /\ UNCHANGED <<rin, gwVars, statsVars, schedVars, loadVars, hostVars>>

-----------------------------------------------------------------------------
Digits == <<"0", "1", "2", "3", "4", "5", "6", "7", "8", "9">>

IsDigit(c) == \E d \in 1..10 : Digits[d] = c

DigitValue(c) == (CHOOSE d \in 1..10 : Digits[d] = c) - 1

RECURSIVE DecimalValue(_, _)
DecimalValue(s, acc) ==
    IF s = <<>> THEN acc ELSE DecimalValue(Tail(s), 10 * acc + DigitValue(Head(s)))

(* config.rs: load_services over a services directory.  An entry holds what *)
(* the loader finds for one name: whether it is a directory, whether the   *)
(* configuration and the manifest exist, the fields of service.json (the   *)
(* schedules as the JSON values of the text) and the path keys of          *)
(* openapi.json that declare a GET operation.  The configurations here     *)
(* declare no listeners.                                                   *)

\* serde_json::Value as far as a schedule entry uses it: a string, a number
\* (n < 0 stands for a number that is not an unsigned integer), an array of
\* values, or an object whose members are listed in the order of the text.
JNull == [t |-> "null", s |-> <<>>, n |-> 0, items |-> <<>>, members |-> <<>>]

JString(s) == [JNull EXCEPT !.t = "string", !.s = s]

JNumber(n) == [JNull EXCEPT !.t = "number", !.n = n]

JArray(items) == [JNull EXCEPT !.t = "array", !.items = items]

JObject(members) == [JNull EXCEPT !.t = "object", !.members = members]

Member(key, value) == [key |-> key, value |-> value]

\* serde_json::Map built from the text: the keys, and the value of a key
\* (a later member replaces an earlier one of the same key).
MapKeys(members) == {members[k].key : k \in 1..Len(members)}

MapValue(members, key) ==
    LET at == {k \in 1..Len(members) : members[k].key = key}
    IN  members[CHOOSE k \in at : \A m \in at : m <= k].value

\* Value::as_u64
AsU64(value) == IF value.t = "number" /\ value.n >= 0 THEN Some(value.n) ELSE None

Str_endpoint == <<"e", "n", "d", "p", "o", "i", "n", "t">>
Str_path == <<"p", "a", "t", "h">>
Str_interval == <<"i", "n", "t", "e", "r", "v", "a", "l">>
Str_interval_secs == Str_interval \o <<"_", "s", "e", "c", "s">>
Str_seconds == <<"s", "e", "c", "o", "n", "d", "s">>
Str_every_secs == <<"e", "v", "e", "r", "y", "_", "s", "e", "c", "s">>

\* The keys parse_schedule_from_object reserves.
SpecialKeys ==
    {Str_endpoint, Str_path, Str_interval, Str_interval_secs, Str_seconds,
     Str_every_secs}

ScheduleError(error) == [ok |-> FALSE, error |-> error, endpoint |-> <<>>, interval_secs |-> 0]

\* parse_interval_value, and the RawScheduleConfig built from its result.
ParseIntervalValue(endpoint, interval_value) ==
    IF AsU64(interval_value) = None
    THEN ScheduleError("schedule interval must be a positive integer")
    ELSE [ok |-> TRUE, error |-> "", endpoint |-> endpoint,
          interval_secs |-> AsU64(interval_value)[1]]

\* parse_schedule_from_array
ParseScheduleFromArray(items) ==
    IF Len(items) # 2
    THEN ScheduleError("schedule array must contain exactly two items")
    ELSE IF items[1].t # "string"
    THEN ScheduleError("schedule array first item must be a string endpoint")
    ELSE ParseIntervalValue(items[1].s, items[2])

\* parse_schedule_from_object without the one-key shape.
ParseScheduleFromObjectNamedOnly(members) ==
    LET keys == MapKeys(members)
        interval_keys == <<Str_interval_secs, Str_seconds, Str_interval, Str_every_secs>>
        present == {k \in 1..4 : interval_keys[k] \in keys}
    IN  IF Str_endpoint \notin keys /\ Str_path \notin keys
        THEN ScheduleError("schedule object missing 'endpoint' field")
        ELSE LET endpoint_value ==
                     IF Str_endpoint \in keys THEN MapValue(members, Str_endpoint)
                     ELSE MapValue(members, Str_path)
             IN  IF endpoint_value.t # "string"
                 THEN ScheduleError("schedule 'endpoint' must be a string")
                 ELSE IF present = {}
                 THEN ScheduleError("schedule object missing interval field")
                 ELSE ParseIntervalValue(
                          endpoint_value.s,
                          MapValue(members,
                                   interval_keys[CHOOSE k \in present :
                                                     \A m \in present : k <= m]))

\* parse_schedule_from_object
ParseScheduleFromObject(members) ==
    LET keys == MapKeys(members)
        key == IF Cardinality(keys) = 1 THEN CHOOSE k \in keys : TRUE ELSE <<>>
        interval_keys == <<Str_interval_secs, Str_seconds, Str_interval, Str_every_secs>>
        present == {k \in 1..4 : interval_keys[k] \in keys}
    IN  IF Cardinality(keys) = 1 /\ key \notin SpecialKeys
        THEN ParseIntervalValue(key, MapValue(members, key))
        ELSE IF Str_endpoint \notin keys /\ Str_path \notin keys
        THEN ScheduleError("schedule object missing 'endpoint' field")
        ELSE LET endpoint_value ==
                     IF Str_endpoint \in keys THEN MapValue(members, Str_endpoint)
                     ELSE MapValue(members, Str_path)
             IN  IF endpoint_value.t # "string"
                 THEN ScheduleError("schedule 'endpoint' must be a string")
                 ELSE IF present = {}
                 THEN ScheduleError("schedule object missing interval field")
                 ELSE ParseIntervalValue(
                          endpoint_value.s,
                          MapValue(members,
                                   interval_keys[CHOOSE k \in present :
                                                     \A m \in present : k <= m]))

\* <RawScheduleConfig as Deserialize>::deserialize
DeserializeSchedule(value) ==
    IF value.t = "array" THEN ParseScheduleFromArray(value.items)
    ELSE IF value.t = "object" THEN ParseScheduleFromObject(value.members)
    ELSE ScheduleError("schedule entry must be an array or object")

\* serde_json::from_str on the schedules of service.json: the first entry
\* that fails ends the parse.
RECURSIVE DeserializeSchedules(_, _)
DeserializeSchedules(values, raw) ==
    IF values = <<>> THEN [ok |-> TRUE, error |-> "", raw |-> raw]
    ELSE LET one == DeserializeSchedule(Head(values))
         IN  IF ~one.ok THEN [ok |-> FALSE, error |-> one.error, raw |-> <<>>]
             ELSE DeserializeSchedules(
                      Tail(values),
                      Append(raw, [endpoint |-> one.endpoint,
                                   interval_secs |-> one.interval_secs]))

\* normalize_service_schedules without the look-up in the OpenAPI set.
RECURSIVE NormalizeServiceSchedulesUnchecked(_, _, _)
NormalizeServiceSchedulesUnchecked(allowed_endpoints, raw_schedules, schedules) ==
    IF raw_schedules = <<>> THEN [ok |-> TRUE, error |-> "", schedules |-> schedules]
    ELSE LET raw == Head(raw_schedules)
             endpoint == TrimMatches(Trim(raw.endpoint), Slash)
         IN  IF endpoint = <<>>
             THEN [ok |-> FALSE, error |-> "must declare a non-empty endpoint",
                   schedules |-> <<>>]
             ELSE IF raw.interval_secs = 0
             THEN [ok |-> FALSE, error |-> "must declare an interval greater than zero",
                   schedules |-> <<>>]
             ELSE NormalizeServiceSchedulesUnchecked(
                      allowed_endpoints, Tail(raw_schedules),
                      Append(schedules, [endpoint |-> endpoint,
                                         interval_secs |-> raw.interval_secs]))

\* normalize_service_schedules: the loop, with the schedules pushed so far.
RECURSIVE NormalizeServiceSchedules(_, _, _)
NormalizeServiceSchedules(allowed_endpoints, raw_schedules, schedules) ==
    IF raw_schedules = <<>> THEN [ok |-> TRUE, error |-> "", schedules |-> schedules]
    ELSE LET raw == Head(raw_schedules)
             endpoint == TrimMatches(Trim(raw.endpoint), Slash)
         IN  IF endpoint = <<>>
             THEN [ok |-> FALSE, error |-> "must declare a non-empty endpoint",
                   schedules |-> <<>>]
             ELSE IF raw.interval_secs = 0
             THEN [ok |-> FALSE, error |-> "must declare an interval greater than zero",
                   schedules |-> <<>>]
             ELSE IF endpoint \notin allowed_endpoints
             THEN [ok |-> FALSE, error |-> "is not declared in its OpenAPI document",
                   schedules |-> <<>>]
             ELSE NormalizeServiceSchedules(
                      allowed_endpoints, Tail(raw_schedules),
                      Append(schedules, [endpoint |-> endpoint,
                                         interval_secs |-> raw.interval_secs]))

\* collect_get_endpoints over the path keys that declare a GET operation.
CollectGetEndpoints(get_paths) ==
    {TrimMatches(path_key, Slash) : path_key \in get_paths} \ {<<>>}

FirstIndex(s, c) ==
    LET at == {k \in 1..Len(s) : s[k] = c}
    IN  IF at = {} THEN 0 ELSE CHOOSE k \in at : \A m \in at : k <= m

LastIndex(s, c) ==
    LET at == {k \in 1..Len(s) : s[k] = c}
    IN  IF at = {} THEN 0 ELSE CHOOSE k \in at : \A m \in at : m <= k

\* u64 to decimal digits (Display).
RECURSIVE ToDecimal(_)
ToDecimal(n) ==
    IF n < 10 THEN <<Digits[n + 1]>>
    ELSE ToDecimal(n \div 10) \o <<Digits[(n % 10) + 1]>>

Str_http == <<"h", "t", "t", "p">>
Str_tcp == <<"t", "c", "p">>

U16_MAX == 65535

\* url: the default port of a scheme; only http, https, ws, wss and ftp
\* have one, and of these the model uses http.
DefaultPort(scheme) == IF scheme = Str_http THEN Some(80) ELSE None

UrlError == [ok |-> FALSE, scheme |-> <<>>, host |-> <<>>, port |-> None, path |-> <<>>]

\* Url::parse, the end: the host and the digits of the port are known.  A
\* port that is not a u16 is InvalidPort, the default port of the scheme is
\* dropped, and the empty path of an http URL is "/".
UrlFromParts(scheme, host, digits, path) ==
    IF host = <<>> \/ \E k \in 1..Len(digits) : ~IsDigit(digits[k]) THEN UrlError
    ELSE IF digits # <<>> /\ DecimalValue(digits, 0) > U16_MAX THEN UrlError
    ELSE [ok |-> TRUE, scheme |-> scheme, host |-> host,
          port |-> IF digits = <<>> \/ Some(DecimalValue(digits, 0)) = DefaultPort(scheme)
                   THEN None ELSE Some(DecimalValue(digits, 0)),
          path |-> IF path = <<>> /\ DefaultPort(scheme) # None THEN <<Slash>> ELSE path]

\* Url::parse, the authority: the host, and the port after the last ':'.
UrlFromAuthority(scheme, authority, path) ==
    IF LastIndex(authority, ":") = 0 THEN UrlFromParts(scheme, authority, <<>>, path)
    ELSE UrlFromParts(scheme,
                      SubSeq(authority, 1, LastIndex(authority, ":") - 1),
                      SubSeq(authority, LastIndex(authority, ":") + 1, Len(authority)),
                      path)

\* Url::parse, after "scheme://": the authority ends at the first '/'.
UrlAfterScheme(scheme, rest) ==
    IF FirstIndex(rest, Slash) = 0 THEN UrlFromAuthority(scheme, rest, <<>>)
    ELSE UrlFromAuthority(scheme,
                          SubSeq(rest, 1, FirstIndex(rest, Slash) - 1),
                          SubSeq(rest, FirstIndex(rest, Slash), Len(rest)))

\* Url::parse on a string of the form scheme://host[:port][/path], or on a
\* string without a scheme (RelativeUrlWithoutBase).
UrlParse(input) ==
    IF \/ FirstIndex(input, ":") <= 1
       \/ Len(input) < FirstIndex(input, ":") + 2
       \/ input[FirstIndex(input, ":") + 1] # Slash
       \/ input[FirstIndex(input, ":") + 2] # Slash
    THEN UrlError
    ELSE UrlAfterScheme(SubSeq(input, 1, FirstIndex(input, ":") - 1),
                        SubSeq(input, FirstIndex(input, ":") + 3, Len(input)))

\* Url::port_or_known_default
PortOrKnownDefault(url) ==
    IF url.port # None THEN url.port ELSE DefaultPort(url.scheme)

\* Url::set_port(Some(port)) on a URL with a host: the default port of the
\* scheme is stored as no port.
SetPort(url, port) ==
    [url EXCEPT !.port = IF Some(port) = DefaultPort(url.scheme) THEN None
                         ELSE Some(port)]

\* String::from(Url)
UrlString(url) ==
    url.scheme \o <<":", Slash, Slash>> \o url.host
    \o (IF url.port = None THEN <<>> ELSE <<":">> \o ToDecimal(url.port[1]))
    \o url.path

\* build_runner_urls, lines 318-337: one URL for every runner, unless a
\* port is above u16::MAX.
RunnerUrlsFrom(parsed, start_port, runners) ==
    IF \E offset \in 0..(runners - 1) : start_port + offset > U16_MAX
    THEN [ok |-> FALSE, error |-> "would exceed TCP port range", urls |-> <<>>]
    ELSE [ok |-> TRUE, error |-> "",
          urls |-> [k \in 1..runners |->
                       TrimEndMatches(UrlString(SetPort(parsed, start_port + k - 1)),
                                      Slash)]]

\* build_runner_urls, lines 305-316: the URL is parsed and must have a port
\* or a scheme with a default port.
RunnerUrlsOfParsed(parsed, runners) ==
    IF ~parsed.ok
    THEN [ok |-> FALSE, error |-> "failed to parse URL", urls |-> <<>>]
    ELSE IF PortOrKnownDefault(parsed) = None
    THEN [ok |-> FALSE, error |-> "must include a port in the URL", urls |-> <<>>]
    ELSE RunnerUrlsFrom(parsed, PortOrKnownDefault(parsed)[1], runners)

\* build_runner_urls, lines 296-303, on the trimmed URL.
RunnerUrlsOfNormalized(normalized, runners) ==
    IF normalized = <<>>
    THEN [ok |-> FALSE, error |-> "url cannot be empty", urls |-> <<>>]
    ELSE IF runners = 1
    THEN [ok |-> TRUE, error |-> "", urls |-> <<TrimEndMatches(normalized, Slash)>>]
    ELSE RunnerUrlsOfParsed(UrlParse(normalized), runners)

\* build_runner_urls: the error, or one URL for every runner.
BuildRunnerUrls(url, runners) == RunnerUrlsOfNormalized(Trim(url), runners)

MAX_MEMORY_LIMIT_MB == 268435455

\* The half of a 32-bit word: numbers above 2^31 - 1 are kept as two halves.
HalfWord == 65536

\* Service::memory_page_limit: limit.checked_mul(16), then the conversion to
\* u32, which fails when a bit above the 32nd is set.  The product is
\* computed on 16-bit halves; a limit of the model is below 2^31, so the
\* multiplication in u64 never overflows.
MemoryPageLimit(service) ==
    IF service.memory_limit_mb = None THEN None
    ELSE LET limit == service.memory_limit_mb[1]
             low == (limit % HalfWord) * 16
             high == (limit \div HalfWord) * 16 + (low \div HalfWord)
         IN  IF high \div HalfWord # 0 THEN None
             ELSE Some([high |-> high, low |-> low % HalfWord])

Str_slash_p == <<Slash, "p">>

ValidEntry(name, prefix) ==
    [name |-> name, is_dir |-> TRUE, has_config |-> TRUE, has_manifest |-> TRUE,
     prefix |-> prefix, url |-> <<"h">> \o name \o <<Slash>>, domain |-> <<"d">>,
     runners |-> 1, memory_limit_mb |-> None, schedules |-> <<>>,
     get_paths |-> {Str_slash_p}]

\* The entries that differ from a valid one in one field.
BaseEntries(name) ==
    { ValidEntry(name, Str_a), ValidEntry(name, Str_b),
      ValidEntry(name, <<" ">>),
      [ValidEntry(name, Str_a) EXCEPT !.is_dir = FALSE],
      [ValidEntry(name, Str_a) EXCEPT !.has_config = FALSE],
      [ValidEntry(name, Str_a) EXCEPT !.has_manifest = FALSE],
      [ValidEntry(name, Str_a) EXCEPT !.url = <<" ">>],
      [ValidEntry(name, Str_a) EXCEPT !.domain = <<>>],
      [ValidEntry(name, Str_a) EXCEPT !.runners = 0],
      [ValidEntry(name, Str_a) EXCEPT !.memory_limit_mb = Some(0)],
      [ValidEntry(name, Str_a) EXCEPT !.memory_limit_mb = Some(64)],
      [ValidEntry(name, Str_a) EXCEPT !.memory_limit_mb = Some(MAX_MEMORY_LIMIT_MB + 1)],
      [ValidEntry(name, Str_a) EXCEPT !.get_paths = {}] }

\* The memory limits of service.json.
MemoryLimits == {1, 100, 65535, 65536, MAX_MEMORY_LIMIT_MB}

\* A schedule of service.json in its wire shapes: the array, the object
\* with a key for the endpoint and a key for the interval, and the object
\* whose one key is the endpoint.
ArrayShape(endpoint, interval) == JArray(<<JString(endpoint), interval>>)

ObjectShape(endpoint_key, interval_key, endpoint, interval) ==
    JObject(<<Member(endpoint_key, JString(endpoint)), Member(interval_key, interval)>>)

KeyShape(endpoint, interval) == JObject(<<Member(endpoint, interval)>>)

EndpointKeys == {Str_endpoint, Str_path}

IntervalKeys == {Str_interval, Str_interval_secs, Str_seconds, Str_every_secs}

WireShapes(endpoint, interval) ==
    {ArrayShape(endpoint, interval), KeyShape(endpoint, interval)}
    \cup {ObjectShape(ek, ik, endpoint, interval) : ek \in EndpointKeys, ik \in IntervalKeys}

\* The endpoints and intervals the schedules of the model name: "/p" with
\* and without its slashes, an endpoint the OpenAPI document lacks, the
\* empty endpoint and an endpoint spelled like a reserved key, without and
\* with a slash.
ScheduleEndpoints ==
    {Str_slash_p, Str_p, <<"p", Slash>>, <<Slash, "x">>, <<Slash>>, Str_seconds,
     <<Slash>> \o Str_seconds}

ScheduleIntervals == {JNumber(2), JNumber(0), JNumber(-1), JString(<<"2">>)}

\* Schedule entries of other forms.
OddSchedules ==
    { JString(Str_slash_p),
      JArray(<<JString(Str_slash_p)>>),
      JArray(<<JNumber(2), JNumber(2)>>),
      JObject(<<>>),
      JObject(<<Member(Str_endpoint, JString(Str_slash_p))>>),
      JObject(<<Member(Str_endpoint, JNumber(2)), Member(Str_seconds, JNumber(2))>>),
      JObject(<<Member(Str_endpoint, JString(Str_slash_p)),
                Member(Str_path, JString(<<Slash, "x">>)),
                Member(Str_seconds, JNumber(2))>>),
      JObject(<<Member(Str_path, JString(Str_slash_p)),
                Member(Str_every_secs, JNumber(0)),
                Member(Str_interval, JNumber(3)),
                Member(Str_seconds, JNumber(2))>>),
      JObject(<<Member(Str_slash_p, JNumber(0)), Member(Str_slash_p, JNumber(2))>>) }

ScheduleLists ==
    {<<w>> : w \in OddSchedules}
    \cup UNION {{<<w>> : w \in WireShapes(e, v)} : e \in ScheduleEndpoints, v \in ScheduleIntervals}
    \cup {<<ArrayShape(Str_slash_p, JNumber(2)), w>> :
            w \in {KeyShape(Str_p, JNumber(3)), KeyShape(<<Slash, "x">>, JNumber(3)),
                   KeyShape(Str_p, JNumber(0))}}

\* The path keys of openapi.json that declare a GET operation.
GetPathSets ==
    {{Str_slash_p}, {<<Slash, "p", Slash>>, <<Slash, "n">>}, {<<Slash>>},
     {<<" ", Slash, "p">>}, {Str_p, <<Slash, "x">>},
     {Str_slash_p, <<Slash>> \o Str_seconds}}

\* The URLs of service.json: with and without a port, with and without a
\* default port of the scheme, with and without a path.
UrlPorts ==
    {<<>>, <<":", "0">>, <<":", "1">>, <<":", "8", "0">>,
     <<":", "6", "5", "5", "3", "4">>, <<":", "6", "5", "5", "3", "5">>,
     <<":", "6", "5", "5", "3", "6">>}

Urls ==
    {scheme \o <<":", Slash, Slash, "h">> \o port \o path :
        scheme \in {Str_http, Str_tcp}, port \in UrlPorts, path \in {<<>>, <<Slash>>}}
    \cup {<<"h", Slash>>}

RunnerCounts == {1, 2, 3}

EntriesFor(name) ==
    BaseEntries(name)
    \cup {[ValidEntry(name, name) EXCEPT !.memory_limit_mb = Some(limit)] :
            limit \in MemoryLimits}
    \cup {[ValidEntry(name, name) EXCEPT !.schedules = schedules, !.get_paths = paths] :
            schedules \in ScheduleLists, paths \in GetPathSets}
    \cup {[ValidEntry(name, name) EXCEPT !.url = url, !.runners = runners] :
            url \in Urls, runners \in RunnerCounts}

\* read_dir lists the entries in no particular order.
Directories ==
    {<<>>}
    \cup {<<e>> : e \in EntriesFor(Str_a)}
    \cup {<<e1, e2>> : e1 \in BaseEntries(Str_a), e2 \in BaseEntries(Str_b)}
    \cup {<<e2, e1>> : e1 \in BaseEntries(Str_a), e2 \in BaseEntries(Str_b)}
    \cup {<<e1, ValidEntry(Str_b, Str_b)>> : e1 \in EntriesFor(Str_a)}
    \cup {<<ValidEntry(Str_a, Str_a), e2>> : e2 \in EntriesFor(Str_b)}

\* validate_service_config without the upper bound of the memory limit.
ValidateServiceConfigNoMaximum(config) ==
    IF Trim(config.prefix) = <<>> THEN "prefix cannot be empty"
    ELSE IF Trim(config.url) = <<>> THEN "url cannot be empty"
    ELSE IF Trim(config.domain) = <<>> THEN "domain cannot be empty"
    ELSE IF config.runners = 0 THEN "runners must be at least 1"
    ELSE IF config.memory_limit_mb # None /\ config.memory_limit_mb[1] = 0
         THEN "memory_limit_mb must be greater than zero"
    ELSE ""

\* validate_service_config: the error, or "" when the configuration passes.
ValidateServiceConfig(config) ==
    IF Trim(config.prefix) = <<>> THEN "prefix cannot be empty"
    ELSE IF Trim(config.url) = <<>> THEN "url cannot be empty"
    ELSE IF Trim(config.domain) = <<>> THEN "domain cannot be empty"
    ELSE IF config.runners = 0 THEN "runners must be at least 1"
    ELSE IF config.memory_limit_mb # None /\ config.memory_limit_mb[1] = 0
         THEN "memory_limit_mb must be greater than zero"
    ELSE IF config.memory_limit_mb # None /\ config.memory_limit_mb[1] > MAX_MEMORY_LIMIT_MB
         THEN "memory_limit_mb exceeds supported maximum"
    ELSE ""

LoadError(error) == [ok |-> FALSE, error |-> error, service |-> <<>>]

\* load_services, lines 183-218, for one entry that has a configuration and
\* a manifest: the error, or the Service.
LoadOne(entry) ==
    LET parsed == DeserializeSchedules(entry.schedules, <<>>)
        invalid == ValidateServiceConfig(entry)
        allowed_get_endpoints == CollectGetEndpoints(entry.get_paths)
        normalized == NormalizeServiceSchedules(allowed_get_endpoints, parsed.raw, <<>>)
        built == BuildRunnerUrls(entry.url, entry.runners)
    IN  IF ~parsed.ok THEN LoadError(parsed.error)
        ELSE IF invalid # "" THEN LoadError(invalid)
        ELSE IF allowed_get_endpoints = {}
        THEN LoadError("document does not declare any GET endpoints")
        ELSE IF ~normalized.ok THEN LoadError(normalized.error)
        ELSE IF ~built.ok THEN LoadError(built.error)
        ELSE [ok |-> TRUE, error |-> "",
              service |-> [name |-> entry.name, prefix |-> entry.prefix,
                           domain |-> entry.domain,
                           base_url |-> IF built.urls # <<>> THEN built.urls[1]
                                        ELSE TrimEndMatches(entry.url, Slash),
                           runner_urls |-> built.urls,
                           allowed_get_endpoints |-> allowed_get_endpoints,
                           queue_listeners |-> <<>>,
                           schedules |-> normalized.schedules,
                           memory_limit_mb |-> entry.memory_limit_mb,
                           runner_instances |-> Len(built.urls)]]

\* Insertion into a list sorted by name, after the entries of equal name.
RECURSIVE InsertByName(_, _)
InsertByName(sorted, service) ==
    IF sorted = <<>> THEN <<service>>
    ELSE IF StrLess(service.name, Head(sorted).name)
    THEN <<service>> \o sorted
    ELSE <<Head(sorted)>> \o InsertByName(Tail(sorted), service)

\* services.sort_by(|a, b| a.name.cmp(&b.name)): a stable sort by name.
RECURSIVE SortByName(_, _)
SortByName(services, sorted) ==
    IF services = <<>> THEN sorted
    ELSE SortByName(Tail(services), InsertByName(sorted, Head(services)))

\* load_services: the loop over the directory entries; the first error ends
\* the load, entries without configuration or manifest are skipped.
RECURSIVE LoadFrom(_, _)
LoadFrom(entries, services) ==
    IF entries = <<>> THEN [ok |-> TRUE, error |-> "", services |-> services]
    ELSE LET entry == Head(entries)
         IN  IF ~entry.is_dir \/ ~entry.has_config \/ ~entry.has_manifest
             THEN LoadFrom(Tail(entries), services)
             ELSE LET one == LoadOne(entry)
                  IN  IF ~one.ok
                      THEN [ok |-> FALSE, error |-> one.error, services |-> <<>>]
                      ELSE LoadFrom(Tail(entries), Append(services, one.service))

\* load_services
LoadServices(entries) ==
    LET result == LoadFrom(entries, <<>>)
    IN  IF result.ok
        THEN [result EXCEPT !.services = SortByName(result.services, <<>>)]
        ELSE result

NotLoaded == [ok |-> FALSE, error |-> "not loaded", services |-> <<>>]

NotAsked == [asked |-> FALSE, service |-> <<>>, pages |-> None]

LoadInit ==
    /\ dir \in Directories
    /\ loaded = NotLoaded
    /\ page_limit = NotAsked

LoadParked ==
    /\ dir = <<>>
    /\ loaded = NotLoaded
    /\ page_limit = NotAsked

\* The runner boots: load_services reads the directory.
Load ==
    /\ loaded = NotLoaded
    /\ loaded' = LoadServices(dir)
    /\ UNCHANGED <<dir, page_limit, gwVars, statsVars, schedVars, routeVars, hostVars>>

\* A module host asks a loaded service for its page limit.
MemoryPageLimitCall(i) ==
    /\ loaded.ok
    /\ i \in 1..Len(loaded.services)
    /\ page_limit' = [asked |-> TRUE, service |-> loaded.services[i].name,
                      pages |-> MemoryPageLimit(loaded.services[i])]
    /\ page_limit' # page_limit
    /\ UNCHANGED <<dir, loaded, gwVars, statsVars, schedVars, routeVars, hostVars>>

LoadNext ==
    \/ Load
    \/ \E i \in 1..2 : MemoryPageLimitCall(i)

-----------------------------------------------------------------------------
(* server.rs: the control endpoints, with stores whose lock may be         *)
(* poisoned (a thread panicked while it held the lock).                    *)

Stores == {"stats", "logs", "schedules", "queues"}

\* initialize_log_store: an empty ring for every service.
InitializeLogStore(services) ==
    [name \in {services[k].name : k \in 1..Len(services)} |-> <<>>]

\* logs.rs: MAX_STORED_LOG_LINES
MAX_STORED_LOG_LINES == 200

\* The forwarder threads: the seed forwarder of each service ("info"), and
\* the stdout and stderr forwarders of service a's child process.
Forwarders ==
    {<<Str_a, "info">>, <<Str_a, "stdout">>, <<Str_a, "stderr">>, <<Str_b, "info">>}

FwdStart == [f \in Forwarders |-> [read |-> 0]]

\* seed_log_store: the two lines of the seed forwarder's reader.
SeedLines == << <<"[", "I", "]", " ", "r">>, <<"[", "I", "]", " ", "c">> >>

\* Lines a child process writes: with a level and without one.
ChildLines == { <<"[", "W", "]", " ", " ", "x">>, <<"x">> }

\* str::find(']'): the 0-based position of the first ']', or None.
RECURSIVE FindClose(_, _)
FindClose(s, at) ==
    IF s = <<>> THEN None
    ELSE IF Head(s) = "]" THEN Some(at)
    ELSE FindClose(Tail(s), at + 1)

\* parse_service_log_line
ParseServiceLogLine(line) ==
    IF line = <<>> \/ Head(line) # "[" THEN None
    ELSE LET rest == Tail(line)
             end == FindClose(rest, 0)
         IN  IF end = None THEN None
             ELSE Some([level |-> SubSeq(rest, 1, end[1]),
                        message |-> TrimStartMatches(SubSeq(rest, end[1] + 2, Len(rest)),
                                                     " ")])

\* str::to_uppercase on the stream labels
ToUppercase(label) ==
    CASE label = "info" -> <<"I", "N", "F", "O">>
      [] label = "stdout" -> <<"S", "T", "D", "O", "U", "T">>
      [] label = "stderr" -> <<"S", "T", "D", "E", "R", "R">>

\* spawn_log_forwarder, lines 37-40: the parts of "[svc:<name>][<level>] <message>"
FormatLine(service_name, stream_label, line) ==
    LET parsed == ParseServiceLogLine(line)
    IN  IF parsed = None
        THEN [service |-> service_name, level |-> ToUppercase(stream_label),
              message |-> line]
        ELSE [service |-> service_name, level |-> parsed[1].level,
              message |-> parsed[1].message]

\* A push that never drops the oldest line.
PushLineKeepsAll(entry, formatted) == Append(entry, formatted)

\* while entry.len() > MAX_STORED_LOG_LINES { entry.pop_front(); }
RECURSIVE DropOldest(_)
DropOldest(entry) ==
    IF Len(entry) > MAX_STORED_LOG_LINES THEN DropOldest(Tail(entry)) ELSE entry

\* A push that gives up the new line when the ring is full.
PushLineDropsNewest(entry, formatted) ==
    IF Len(entry) >= MAX_STORED_LOG_LINES THEN entry ELSE Append(entry, formatted)

\* spawn_log_forwarder, lines 43-47: push_back, then drop from the front.
PushLine(entry, formatted) == DropOldest(Append(entry, formatted))

\* The lines a forwarder can read next: the seed reader holds two lines, a
\* child's pipe gives any line while the child writes.
NextLines(f) ==
    IF f[2] = "info"
    THEN (IF fwd[f].read < Len(SeedLines) THEN {SeedLines[fwd[f].read + 1]} ELSE {})
    ELSE (IF fwd[f].read < MaxLogLines THEN ChildLines ELSE {})

\* One turn of a forwarder's loop: a line is read and formatted, and pushed
\* into the service's ring under the store's lock.
LogForward(f, line) ==
    /\ line \in NextLines(f)
    /\ fwd' = [fwd EXCEPT ![f].read = @ + 1]
    /\ logs' = MapPut(logs, f[1],
                    PushLine(MapGet(logs, f[1], <<>>), FormatLine(f[1], f[2], line)))
    /\ UNCHANGED <<poisoned, outsideCtl>>

\* Ring lengths the store of service a starts from: its stdout forwarder
\* has pushed that many lines (to a ring that then held at most that many)
\* before the seed and stderr forwarders were scheduled.
StartLengths == {0, MAX_STORED_LOG_LINES - 1, MAX_STORED_LOG_LINES}

LogInit ==
    /\ poisoned = {}
    /\ fwd = FwdStart
    /\ \E n \in StartLengths :
          logs = [InitializeLogStore(Services) EXCEPT
                     ![Str_a] = [i \in 1..n |-> FormatLine(Str_a, "stdout", <<"x">>)]]

CtlInit ==
    /\ poisoned = {}
    /\ logs = InitializeLogStore(Services)
    /\ fwd = FwdStart

\* rest.split('/').filter(|segment| !segment.is_empty())
RECURSIVE SplitSegments(_, _, _)
SplitSegments(s, current, found) ==
    IF s = <<>> THEN (IF current = <<>> THEN found ELSE Append(found, current))
    ELSE IF Head(s) = Slash
         THEN SplitSegments(Tail(s), <<>>,
                            IF current = <<>> THEN found ELSE Append(found, current))
         ELSE SplitSegments(Tail(s), Append(current, Head(s)), found)

Segments(rest) == SplitSegments(rest, <<>>, <<>>)

Str_logs == <<"l", "o", "g", "s">>
Str_openapi == <<"o", "p", "e", "n", "a", "p", "i">>
Str_schedules == <<"s", "c", "h", "e", "d", "u", "l", "e", "s">>
Str_toggle == <<"t", "o", "g", "g", "l", "e">>
Str_run == <<"r", "u", "n">>

\* str::parse::<usize>: decimal digits after an optional '+'.  The strings
\* of this model are too short to overflow.
ParseUsize(s) ==
    LET digits == IF s # <<>> /\ Head(s) = "+" THEN Tail(s) ELSE s
    IN  IF digits # <<>> /\ \A i \in 1..Len(digits) : IsDigit(digits[i])
        THEN Some(DecimalValue(digits, 0))
        ELSE None

\* handle_internal_service_control and handle_schedule_request up to the
\* call of the scheduler: the status to answer at once, or the operation,
\* service and index to go on with.
ControlPlan(services, rest) ==
    LET segments == Segments(rest)
        index == ParseUsize(segments[3])
        answer(code) == [op |-> "answer", status |-> code, service |-> <<>>, index |-> 0]
    IN  IF Len(segments) < 2 THEN answer(404)
        ELSE IF segments[2] # Str_schedules THEN answer(404)
        ELSE IF ~Configured(services, segments[1]) THEN answer(404)
        ELSE IF Len(segments) # 4 THEN answer(404)
        ELSE IF index = None THEN answer(400)
        ELSE IF segments[4] = Str_toggle
             THEN [op |-> "toggle", status |-> 0, service |-> segments[1], index |-> index[1]]
        ELSE IF segments[4] = Str_run
             THEN [op |-> "run", status |-> 0, service |-> segments[1], index |-> index[1]]
        ELSE answer(404)

\* A handler that treats GET on schedules as any other unknown action.
ServiceRequestStatusNoSchedules(services, rest, logs_poisoned, store, read_ok) ==
    LET segments == Segments(rest)
    IN  IF Len(segments) < 2 THEN 404
        ELSE IF ~Configured(services, segments[1]) THEN 404
        ELSE IF segments[2] = Str_logs
             THEN IF Len(segments) > 2 THEN 404
                  ELSE IF logs_poisoned THEN 503
                  ELSE IF segments[1] \in DOMAIN store THEN 200 ELSE 404
        ELSE IF segments[2] = Str_openapi
             THEN IF Len(segments) > 2 THEN 404
                  ELSE IF read_ok THEN 200 ELSE 500
        ELSE 404

\* handle_internal_service_request: the status it answers.  read_ok tells
\* whether the service's OpenAPI file can be read.
ServiceRequestStatus(services, rest, logs_poisoned, store, read_ok) ==
    LET segments == Segments(rest)
    IN  IF Len(segments) < 2 THEN 404
        ELSE IF ~Configured(services, segments[1]) THEN 404
        ELSE IF segments[2] = Str_logs
             THEN IF Len(segments) > 2 THEN 404
                  ELSE IF logs_poisoned THEN 503
                  ELSE IF segments[1] \in DOMAIN store THEN 200 ELSE 404
        ELSE IF segments[2] = Str_openapi
             THEN IF Len(segments) > 2 THEN 404
                  ELSE IF read_ok THEN 200 ELSE 500
        ELSE IF segments[2] = Str_schedules THEN 405
        ELSE 404

\* GET /__runner__/services/...
GwServiceRequest(read_ok) ==
    /\ Taking("service_request")
    /\ LET req == Head(inbox)
           rest == Dispatch(req.method, req.path).rest
       IN  Finish(req, Answered(req, ServiceRequestStatus(Services, rest,
                                         "logs" \in poisoned, logs, read_ok),
                                "gateway"))
    /\ UNCHANGED <<nreq, queues, prepLog, published, qsnaps, statsVars, outsideGateway>>

\* POST /__runner__/services/...: a toggle is answered in this step, a run
\* goes on to its webhook call and is answered by ManualStore.
GwServiceControl ==
    /\ Taking("service_control")
    /\ LET req == Head(inbox)
           plan == ControlPlan(SchedServices, Dispatch(req.method, req.path).rest)
       IN  CASE plan.op = "answer" ->
                  /\ Finish(req, Answered(req, plan.status, "gateway"))
                  /\ UNCHANGED <<sched, timer, manual, toggles>>
             [] plan.op = "toggle" ->
                  /\ ToggleEffect(plan.service, plan.index)
                  /\ Finish(req, Answered(req, manual'.answer, "gateway"))
             [] plan.op = "run" ->
                  /\ RunEffect(plan.service, plan.index)
                  /\ IF manual'.pc = "idle"
                     THEN Finish(req, Answered(req, manual'.answer, "gateway"))
                     ELSE UNCHANGED <<gw, svc, done>>
                  /\ UNCHANGED <<sched, timer, toggles>>
    /\ UNCHANGED <<nreq, queues, prepLog, published, qsnaps, statsVars, clock, lastStored,
                   ssnap, routeVars, loadVars, hostVars>>

\* GET /__runner__/stats: handle_stats_request takes the snapshot under the
\* store's lock.
GwStats ==
    /\ Taking("stats")
    /\ IF "stats" \in poisoned
       THEN /\ Finish(Head(inbox), Answered(Head(inbox), 503, "gateway"))
            /\ UNCHANGED snap
       ELSE /\ Finish(Head(inbox), Answered(Head(inbox), 200, "gateway"))
            /\ snap' = [taken |-> TRUE, result |-> StatsSnapshot(stats, now)]
    /\ UNCHANGED <<nreq, queues, prepLog, published, qsnaps, stats, nrec, now,
                   outsideGateway>>

\* The requests sent to the control endpoints in this model.
ControlRequests ==
    { [method |-> "PUT", path |-> <<"/", "a", "/", "p">>, from |-> "client"],
      [method |-> "PUT", path |-> <<"/">> \o RunnerQueuesPrefix \o Str_q, from |-> "client"],
      [method |-> "DELETE",
       path |-> <<"/">> \o RunnerServicesPrefix \o Str_a \o <<"/">> \o Str_schedules
                \o <<"/", "0", "/">> \o Str_toggle,
       from |-> "client"],
      Post(<<"/", "a", "/", "p">>),
      Post(<<"/">> \o RunnerStatsPath),
      Post(<<"/">> \o RunnerQueuesPrefix \o Str_q),
      Get(<<"/">> \o RunnerServicesPrefix \o Str_a \o <<"/">> \o Str_schedules
          \o <<"/", "0", "/">> \o Str_toggle),
      Get(<<"/">> \o RunnerServicesPrefix \o UnknownService \o <<"/">> \o Str_schedules
          \o <<"/", "0", "/">> \o Str_toggle),
      Get(<<"/">> \o RunnerServicesPrefix \o Str_a \o <<"/">> \o Str_logs),
      Get(<<"/">> \o RunnerServicesPrefix \o Str_a \o <<"/">> \o Str_openapi),
      Get(<<"/">> \o RunnerServicesPrefix \o Str_a),
      Get(<<"/">> \o RunnerStatsPath),
      Post(<<"/">> \o RunnerServicesPrefix \o Str_a \o <<"/">> \o Str_schedules
           \o <<"/", "0", "/">> \o Str_toggle),
      Post(<<"/">> \o RunnerServicesPrefix \o Str_a \o <<"/">> \o Str_schedules
           \o <<"/", "0", "/">> \o Str_run),
      Post(<<"/">> \o RunnerServicesPrefix \o UnknownService \o <<"/">> \o Str_schedules
           \o <<"/", "0", "/">> \o Str_toggle),
      Post(<<"/">> \o RunnerServicesPrefix \o Str_a \o <<"/">> \o Str_schedules
           \o <<"/", "x", "/">> \o Str_toggle) }

ControlClientRequest(r) ==
    /\ r \in ControlRequests
    /\ nreq < MaxControlRequests
    /\ nreq' = nreq + 1
    /\ inbox' = Append(inbox, r)
    /\ UNCHANGED <<gw, svc, queues, done, prepLog, published, qsnaps, statsVars, outsideGateway>>

\* A thread panics while it holds the lock of a store.
Poison(store) ==
    /\ store \notin poisoned
    /\ poisoned' = poisoned \cup {store}
    /\ UNCHANGED <<logs, fwd, outsideCtl>>

-----------------------------------------------------------------------------
(* health.rs: the health monitor, one thread that probes every service in  *)
(* turn and then sleeps.                                                   *)

\* What a probe of GET base_url/health can come back with: a response with
\* its status, or a transport error (refused, timed out).
ProbeOutcomes ==
    { [kind |-> "response", status |-> 200],
      [kind |-> "response", status |-> 204],
      [kind |-> "response", status |-> 500],
      [kind |-> "transport", status |-> 0] }

NoProbe == [kind |-> "none", status |-> 0]

\* healthcheck_url
HealthcheckUrl(service) ==
    TrimEndMatches(service.base_url, Slash) \o <<Slash>> \o HealthPath

\* A check that takes every response for a healthy service.
PerformHealthCheckAnyResponse(outcome) ==
    IF outcome.kind = "response" THEN "Healthy" ELSE "Unhealthy"

\* A check that has no verdict for a service it could not reach.
PerformHealthCheckUnknownOnError(outcome) ==
    IF outcome.kind = "transport" THEN "Unknown"
    ELSE IF outcome.status = 200 THEN "Healthy" ELSE "Unhealthy"

\* perform_health_check
PerformHealthCheck(outcome) ==
    IF outcome.kind = "response" /\ outcome.status = 200 THEN "Healthy" ELSE "Unhealthy"

\* ServiceHealth::default()
ServiceHealthDefault == [status |-> "Unknown", last_checked |-> None]

MonitorStart ==
    [pc |-> "probe", i |-> 1, now |-> 0, status |-> "Unknown", url |-> <<>>,
     outcome |-> NoProbe]

\* start_health_monitor: a default record for every service, and the thread.
HealthInit ==
    /\ health = [name \in {Services[k].name : k \in 1..Len(Services)} |->
                    ServiceHealthDefault]
    /\ monitor = MonitorStart

\* The monitor reads the clock and probes the service it has reached.
HealthProbe(outcome) ==
    /\ monitor.pc = "probe"
    /\ outcome \in ProbeOutcomes
    /\ monitor' = [monitor EXCEPT !.pc = "store", !.now = clock,
                                  !.url = HealthcheckUrl(Services[monitor.i]),
                                  !.outcome = outcome,
                                  !.status = PerformHealthCheck(outcome)]
    /\ UNCHANGED <<health, schedVars, outsideHealth>>

\* The monitor writes the result under the map's lock and moves on to the
\* next service, or to its sleep after the last one.
HealthStore ==
    /\ monitor.pc = "store"
    /\ LET name == Services[monitor.i].name
           entry == MapGet(health, name, ServiceHealthDefault)
       IN  health' = MapPut(health, name,
                         [entry EXCEPT !.status = monitor.status,
                                       !.last_checked = Some(monitor.now)])
    /\ monitor' = IF monitor.i < Len(Services)
                  THEN [monitor EXCEPT !.pc = "probe", !.i = @ + 1]
                  ELSE [monitor EXCEPT !.pc = "sleep"]
    /\ UNCHANGED <<schedVars, outsideHealth>>

\* The sleep between two rounds ends; how long it lasted is left open.
HealthWake ==
    /\ monitor.pc = "sleep"
    /\ monitor' = [monitor EXCEPT !.pc = "probe", !.i = 1]
    /\ UNCHANGED <<health, schedVars, outsideHealth>>

-----------------------------------------------------------------------------
(* memory.rs: the memory store.                                            *)

\* u64::saturating_mul.  A limit that passed validation is below 2^28 MB,
\* so its product with 2^20 is below 2^48 and never saturates.
SaturatingMul(a, b) == a * b

\* The services the store is built for: one with a memory limit of 64 MB,
\* one without a limit.
MemServices ==
    << [name |-> Str_a, memory_limit_mb |-> Some(64)],
       [name |-> Str_b, memory_limit_mb |-> None] >>

\* initialize_memory_store
InitializeMemoryStore(services) ==
    [name \in {services[k].name : k \in 1..Len(services)} |->
        LET service == services[CHOOSE k \in 1..Len(services) : services[k].name = name]
        IN  [usage_bytes |-> None,
             limit_bytes |-> IF service.memory_limit_mb = None THEN None
                             ELSE Some(SaturatingMul(service.memory_limit_mb[1],
                                                     1024 * 1024)),
             last_updated |-> None]]

\* A record that also writes the usage into the limit.
RecordMemoryUsageMovesLimit(store, service_name, usage_bytes, at) ==
    IF service_name \in DOMAIN store
    THEN [store EXCEPT ![service_name].usage_bytes = usage_bytes,
                       ![service_name].limit_bytes = usage_bytes,
                       ![service_name].last_updated = Some(at)]
    ELSE store

\* record_memory_usage, under the store's lock
RecordMemoryUsage(store, service_name, usage_bytes, at) ==
    IF service_name \in DOMAIN store
    THEN [store EXCEPT ![service_name].usage_bytes = usage_bytes,
                       ![service_name].last_updated = Some(at)]
    ELSE store

\* reset_memory_entry, under the store's lock
ResetMemoryEntry(store, service_name) ==
    IF service_name \in DOMAIN store
    THEN [store EXCEPT ![service_name].usage_bytes = None,
                       ![service_name].last_updated = None]
    ELSE store

NoMemoryCall == [n |-> 0, op |-> "", service |-> <<>>]

MemInit ==
    /\ memory = InitializeMemoryStore(MemServices)
    /\ memop = NoMemoryCall

\* The usages a probe reports: none, zero, and some bytes.
MemoryUsages == {None, Some(0), Some(4096)}

MemoryCallers == {Str_a, Str_b, UnknownService}

RecordMemoryUsageCall(service_name, usage_bytes) ==
    /\ memop.n < MaxMemoryCalls
    /\ memory' = RecordMemoryUsage(memory, service_name, usage_bytes, clock)
    /\ memop' = [n |-> memop.n + 1, op |-> "record", service |-> service_name]
    /\ UNCHANGED outsideMem

ResetMemoryEntryCall(service_name) ==
    /\ memop.n < MaxMemoryCalls
    /\ memory' = ResetMemoryEntry(memory, service_name)
    /\ memop' = [n |-> memop.n + 1, op |-> "reset", service |-> service_name]
    /\ UNCHANGED outsideMem

-----------------------------------------------------------------------------
(* process.rs: start_service_processes, the children it spawns and the     *)
(* guards that own them.  Child::kill, Child::wait and Child::try_wait do  *)
(* what std documents; a child may open its port or exit at any time.      *)

\* process.rs: SERVICE_STARTUP_ATTEMPTS
SERVICE_STARTUP_ATTEMPTS == 50

\* The services to start, in the order of the list.
BootServices == <<Str_a, Str_b, Str_n>>

\* A child is "none" (never spawned), "running", "exited" (not yet waited
\* for) or "reaped".
NoChild == [state |-> "none", listening |-> FALSE]

\* probe_service: a connection to the service's address is accepted.
ProbeService(i) ==
    i \in ports \/ (children[i].state = "running" /\ children[i].listening)

\* child.kill() followed by child.wait()
KillAndWait(child) == [state |-> "reaped", listening |-> FALSE]

\* ServiceGuard::drop without the kill.
ServiceGuardDropWaitsOnly(child) ==
    IF child.state = "exited" THEN [state |-> "reaped", listening |-> FALSE]
    ELSE child

\* ServiceGuard::drop: try_wait reaps a child that has exited; a child still
\* running is killed and waited for.
ServiceGuardDrop(child) ==
    IF child.state = "exited" THEN [state |-> "reaped", listening |-> FALSE]
    ELSE KillAndWait(child)

\* The loop of start_service_processes goes on with the next service, or
\* returns Ok(guards) after the last.
NextService(guards) ==
    [boot EXCEPT !.i = boot.i + 1, !.attempts = 0, !.guards = guards,
                 !.pc = IF boot.i = Len(BootServices) THEN "up" ELSE "probe",
                 !.result = IF boot.i = Len(BootServices) THEN "ok" ELSE ""]

\* start_service_processes returns Err: the guards vector is dropped.
BootFails(cause) ==
    [boot EXCEPT !.result = "err", !.cause = cause,
                 !.pc = IF boot.guards = <<>> THEN "done" ELSE "drop"]

ProcInit ==
    /\ boot = [pc |-> "probe", i |-> 1, attempts |-> 0, guards |-> <<>>,
               result |-> "", cause |-> ""]
    /\ children = [i \in 1..Len(BootServices) |-> NoChild]
    /\ ports \in SUBSET (1..Len(BootServices))

\* Every service is served already: the boot spawned nothing.
ProcParked ==
    /\ boot = [pc |-> "up", i |-> Len(BootServices) + 1, attempts |-> 0,
               guards |-> <<>>, result |-> "ok", cause |-> ""]
    /\ children = [i \in 1..Len(BootServices) |-> NoChild]
    /\ ports = 1..Len(BootServices)

\* Lines 177-183: a service that answers the probe is left alone.
BootProbe ==
    /\ boot.pc = "probe"
    /\ boot' = IF ProbeService(boot.i) THEN NextService(boot.guards)
               ELSE [boot EXCEPT !.pc = "build"]
    /\ UNCHANGED <<children, ports, outsideProc>>

BuildOutcomes == {"spawned", "build_failed", "binary_missing", "spawn_failed"}

\* Lines 185-232: build_service, service_binary_path and Command::spawn;
\* each of them may fail and end the boot.
BootSpawn(outcome) ==
    /\ boot.pc = "build"
    /\ IF outcome = "spawned"
       THEN /\ children' = [children EXCEPT ![boot.i] =
                                [state |-> "running", listening |-> FALSE]]
            /\ boot' = [boot EXCEPT !.pc = "wait", !.attempts = 0]
       ELSE /\ boot' = BootFails(outcome)
            /\ UNCHANGED children
    /\ UNCHANGED <<ports, outsideProc>>

\* wait_for_service, one round of its loop: a probe, and after a failed
\* probe the sleep; lines 234-240 when the probe succeeds.
BootWait ==
    /\ boot.pc = "wait"
    /\ boot' = IF ProbeService(boot.i) THEN NextService(Append(boot.guards, boot.i))
               ELSE [boot EXCEPT !.attempts = boot.attempts + 1,
                                 !.pc = IF boot.attempts + 1 = SERVICE_STARTUP_ATTEMPTS
                                        THEN "kill" ELSE "wait"]
    /\ UNCHANGED <<children, ports, outsideProc>>

\* Lines 241-255: the service did not become ready in time.
BootKill ==
    /\ boot.pc = "kill"
    /\ children' = [children EXCEPT ![boot.i] = KillAndWait(children[boot.i])]
    /\ boot' = BootFails("timeout")
    /\ UNCHANGED <<ports, outsideProc>>

\* The guards vector is dropped, one guard after the other.
GuardDrop ==
    /\ boot.pc = "drop"
    /\ children' = [children EXCEPT ![Head(boot.guards)] =
                        ServiceGuardDrop(children[Head(boot.guards)])]
    /\ boot' = [boot EXCEPT !.guards = Tail(boot.guards),
                            !.pc = IF Tail(boot.guards) = <<>> THEN "done" ELSE "drop"]
    /\ UNCHANGED <<ports, outsideProc>>

\* The runner ends and drops the guards start_service_processes returned.
RunnerShutdown ==
    /\ boot.pc = "up"
    /\ boot' = [boot EXCEPT !.pc = IF boot.guards = <<>> THEN "done" ELSE "drop"]
    /\ UNCHANGED <<children, ports, outsideProc>>

\* A running child binds its port, unless another process holds it.
ChildListens(i) ==
    /\ children[i].state = "running"
    /\ ~children[i].listening
    /\ i \notin ports
    /\ children' = [children EXCEPT ![i].listening = TRUE]
    /\ UNCHANGED <<boot, ports, outsideProc>>

\* A running child exits on its own.
ChildExits(i) ==
    /\ children[i].state = "running"
    /\ children' = [children EXCEPT ![i] = [state |-> "exited", listening |-> FALSE]]
    /\ UNCHANGED <<boot, ports, outsideProc>>

ProcNext ==
    \/ BootProbe
    \/ \E outcome \in BuildOutcomes : BootSpawn(outcome)
    \/ BootWait
    \/ BootKill
    \/ GuardDrop
    \/ RunnerShutdown
    \/ \E i \in 1..Len(BootServices) : ChildListens(i)
    \/ \E i \in 1..Len(BootServices) : ChildExits(i)

-----------------------------------------------------------------------------
(* The store mutexes.  Every thread runs a list of steps: taking a store's *)
(* mutex, dropping its guard, and blocking network I/O, in the order of    *)
(* the source.  A MutexGuard is dropped at the end of the statement or     *)
(* block that holds it.                                                    *)

LockStores == {"health", "logs", "memory", "queues", "schedules", "stats"}

Threads == {"gateway", "timer", "monitor", "forwarder"}

Free == ""

Lock(store) == [op |-> "lock", arg |-> store]
Unlock(store) == [op |-> "unlock", arg |-> store]
Io(kind) == [op |-> "io", arg |-> kind]

\* handle_request's proxy branch: the upstream call, then record_http_status,
\* then the answer.
ProxySteps == <<Io("upstream"), Lock("stats"), Unlock("stats"), Io("respond")>>

\* handle_queue_publish with two subscribers: prepare_delivery inside
\* with_queue_registry, then one POST per subscriber, then the 202.
HandleQueuePublishSteps ==
    <<Lock("queues"), Unlock("queues"), Io("deliver"), Io("deliver"), Io("respond")>>

\* render_homepage: render_domain_sections clones the three maps, one
\* statement each, render_queue_section takes the registry's snapshot.
RenderHomepageSteps ==
    <<Lock("health"), Unlock("health"), Lock("schedules"), Unlock("schedules"),
      Lock("memory"), Unlock("memory"), Lock("queues"), Unlock("queues"),
      Io("respond")>>

\* trigger_schedule_now and the answer of the run endpoint.
TriggerScheduleNowSteps ==
    <<Io("webhook"), Lock("schedules"), Unlock("schedules"), Io("respond")>>

\* toggle_schedule and the answer of the toggle endpoint.
ToggleScheduleSteps == <<Lock("schedules"), Unlock("schedules"), Io("respond")>>

\* The logs endpoint: the body is built under the lock, the 200 is sent after
\* the match that holds the guard.
LogsRequestSteps == <<Lock("logs"), Unlock("logs"), Io("respond")>>

\* handle_stats_request.
StatsRequestSteps == <<Lock("stats"), Unlock("stats"), Io("respond")>>

\* A run_schedule that keeps the guard of the paused read until the end of
\* the iteration.
RunScheduleStepsOneGuard ==
    <<Lock("schedules"), Io("webhook"), Unlock("schedules")>>

\* run_schedule, an iteration that fires: paused is read under the lock, the
\* webhook is called, the state is updated under the lock.
RunScheduleSteps ==
    <<Lock("schedules"), Unlock("schedules"), Io("webhook"),
      Lock("schedules"), Unlock("schedules")>>

\* run_schedule, an iteration that does not fire.
RunScheduleIdleSteps == <<Lock("schedules"), Unlock("schedules")>>

\* start_health_monitor's loop body for one service.
HealthMonitorSteps == <<Io("probe"), Lock("health"), Unlock("health")>>

\* spawn_log_forwarder: one line pushed.
LogForwarderSteps == <<Lock("logs"), Unlock("logs")>>

\* What each thread may run next.
StepsOf(thread) ==
    CASE thread = "gateway" ->
           {ProxySteps, HandleQueuePublishSteps, RenderHomepageSteps,
            TriggerScheduleNowSteps, ToggleScheduleSteps, LogsRequestSteps,
            StatsRequestSteps}
      [] thread = "timer" -> {RunScheduleSteps, RunScheduleIdleSteps}
      [] thread = "monitor" -> {HealthMonitorSteps}
      [] thread = "forwarder" -> {LogForwarderSteps}

Resting == [steps |-> <<>>, at |-> 1, inflight |-> FALSE]

LockInit ==
    /\ held = [store \in LockStores |-> Free]
    /\ lpc = [thread \in Threads |-> Resting]

\* The step a thread is at.
AtStep(thread, op) ==
    /\ lpc[thread].at \in 1..Len(lpc[thread].steps)
    /\ lpc[thread].steps[lpc[thread].at].op = op

Advance(thread) ==
    IF lpc[thread].at = Len(lpc[thread].steps)
    THEN [lpc EXCEPT ![thread] = Resting]
    ELSE [lpc EXCEPT ![thread].at = @ + 1, ![thread].inflight = FALSE]

\* A thread starts a handler or a loop iteration.
ThreadStart(thread, steps) ==
    /\ lpc[thread].steps = <<>>
    /\ lpc' = [lpc EXCEPT ![thread] = [steps |-> steps, at |-> 1, inflight |-> FALSE]]
    /\ UNCHANGED <<held, outsideLocks>>

\* Mutex::lock: blocks while another thread holds the guard.
ThreadLock(thread) ==
    /\ AtStep(thread, "lock")
    /\ held[lpc[thread].steps[lpc[thread].at].arg] = Free
    /\ held' = [held EXCEPT ![lpc[thread].steps[lpc[thread].at].arg] = thread]
    /\ lpc' = Advance(thread)
    /\ UNCHANGED outsideLocks

\* The guard is dropped.
ThreadUnlock(thread) ==
    /\ AtStep(thread, "unlock")
    /\ held' = [held EXCEPT ![lpc[thread].steps[lpc[thread].at].arg] = Free]
    /\ lpc' = Advance(thread)
    /\ UNCHANGED outsideLocks

\* A blocking network call is sent.
IoStart(thread) ==
    /\ AtStep(thread, "io")
    /\ ~lpc[thread].inflight
    /\ lpc' = [lpc EXCEPT ![thread].inflight = TRUE]
    /\ UNCHANGED <<held, outsideLocks>>

\* The call returns or times out.
IoEnd(thread) ==
    /\ AtStep(thread, "io")
    /\ lpc[thread].inflight
    /\ lpc' = Advance(thread)
    /\ UNCHANGED <<held, outsideLocks>>

LocksNext ==
    \/ \E thread \in Threads : \E steps \in StepsOf(thread) : ThreadStart(thread, steps)
    \/ \E thread \in Threads : ThreadLock(thread)
    \/ \E thread \in Threads : ThreadUnlock(thread)
    \/ \E thread \in Threads : IoStart(thread)
    \/ \E thread \in Threads : IoEnd(thread)

-----------------------------------------------------------------------------
(* One run_schedule loop on its own: the schedule's interval is drawn, and *)
(* every tick reads paused from the map as toggles have left it.           *)

TickIntervals == 0..3

\* run_schedule, lines 149-150: interval = interval_secs.max(1) and
\* remaining = interval.
LoopStart(interval_secs) ==
    [interval |-> Max(interval_secs, 1), remaining |-> Max(interval_secs, 1),
     ticks |-> 0, fires |-> <<>>, paused_seen |-> FALSE]

LoopInit == ticker \in {LoopStart(interval_secs) : interval_secs \in TickIntervals}

LoopParked == ticker = LoopStart(SchedService.schedules[1].interval_secs)

\* run_schedule: one iteration of the loop, from the end of the sleep to the
\* webhook call of a tick that fires.
RunScheduleTick(paused) ==
    /\ ticker.ticks < MaxTicks
    /\ LET d == TickDecision(paused, ticker.remaining, ticker.interval)
       IN  ticker' = [ticker EXCEPT
                         !.remaining = d.remaining,
                         !.ticks = @ + 1,
                         !.fires = IF d.fire THEN Append(@, ticker.ticks + 1) ELSE @,
                         !.paused_seen = @ \/ paused]
    /\ UNCHANGED outsideLoop

LoopNext == \E paused \in BOOLEAN : RunScheduleTick(paused)

-----------------------------------------------------------------------------
(* The specifications.                                                     *)

SchedParked == SchedInit

\* The stores and threads outside the gateway, as the runner starts them.
HostParked == CtlInit /\ HealthInit /\ MemInit /\ ProcParked /\ LockInit /\ LoopParked

\* The gateway serving client requests of every kind.
Init == GwInit /\ StatsInit /\ SchedParked /\ RouteParked /\ LoadParked /\ HostParked

Next ==
    \/ \E r \in ClientRequests : ClientRequest(r)
    \/ GwHealth
    \/ GwHomepage
    \/ GwPostNotFound
    \/ GwMethodNotAllowed
    \/ GwPublish
    \/ \E ok \in BOOLEAN : GwDeliver(ok)
    \/ GwPublishRespond
    \/ GwProxy
    \/ ServicePublish
    \/ \E outcome \in UpstreamOutcomes \cup NotifyOutcomes : GwUpstreamReply(outcome)
    \/ Tick

Spec == Init /\ [][Next]_vars

\* The gateway serving the queue endpoints and the dashboard.
QueueNext ==
    \/ \E r \in QueueRequests : QueueClientRequest(r)
    \/ GwHomepage
    \/ GwPublish
    \/ \E ok \in BOOLEAN : GwDeliver(ok)
    \/ GwPublishRespond

QueueSpec == Init /\ [][QueueNext]_vars

\* The stats store under direct record calls.
StatsNext ==
    \E key \in RecordKeys, status \in RecordStatuses, t \in RecordTimes :
        StatsRecordCall(key, status, t)

StatsSpec == Init /\ [][StatsNext]_vars

\* The stats store under direct record and snapshot calls.
SnapshotNext ==
    \/ \E key \in RecordKeys, status \in RecordStatuses, t \in RecordTimes :
          StatsRecordCall(key, status, t)
    \/ \E t \in SnapshotTimes : StatsSnapshotCall(t)

SnapshotSpec == Init /\ [][SnapshotNext]_vars

\* The gateway serving the control endpoints while locks get poisoned.
ControlNext ==
    \/ \E r \in ControlRequests : ControlClientRequest(r)
    \/ \E store \in Stores : Poison(store)
    \/ GwMethodNotAllowed
    \/ GwPostNotFound
    \/ \E read_ok \in BOOLEAN : GwServiceRequest(read_ok)
    \/ GwStats
    \/ GwPublish
    \/ \E ok \in BOOLEAN : GwDeliver(ok)
    \/ GwPublishRespond
    \/ GwServiceControl
    \/ \E result \in WebhookResults : ManualWebhook(result)
    \/ ManualStore

ControlSpec == Init /\ [][ControlNext]_vars

\* The log forwarders of the services.
LogSpecInit ==
    GwInit /\ StatsInit /\ SchedParked /\ RouteParked /\ LoadParked /\ LogInit /\ HealthInit
    /\ MemInit /\ ProcParked /\ LockInit /\ LoopParked

LogNext ==
    \E f \in Forwarders, line \in ChildLines \cup {SeedLines[1], SeedLines[2]} :
        LogForward(f, line)

LogSpec == LogSpecInit /\ [][LogNext]_vars

\* The memory store under direct calls, and the clock.
MemNext ==
    \/ \E name \in MemoryCallers, usage \in MemoryUsages :
          RecordMemoryUsageCall(name, usage)
    \/ \E name \in MemoryCallers : ResetMemoryEntryCall(name)
    \/ ClockAdvance

MemSpec == Init /\ [][MemNext]_vars

\* The boot of the service processes and the end of the runner.
ProcSpecInit ==
    GwInit /\ StatsInit /\ SchedParked /\ RouteParked /\ LoadParked /\ CtlInit
    /\ HealthInit /\ MemInit /\ ProcInit /\ LockInit /\ LoopParked

ProcSpec == ProcSpecInit /\ [][ProcNext]_vars

\* The health monitor and the clock.
HealthNext ==
    \/ \E outcome \in ProbeOutcomes : HealthProbe(outcome)
    \/ HealthStore
    \/ HealthWake
    \/ ClockAdvance

HealthSpec == Init /\ [][HealthNext]_vars

\* The scheduler: one timer task per schedule, and the gateway thread
\* serving toggle, run and the dashboard.
SchedNext ==
    \/ \E name \in {SchedService.name, PlainService.name, UnknownService},
             index \in 0..1 :
          GwToggle(name, index)
    \/ \E name \in {SchedService.name, PlainService.name, UnknownService},
             index \in 0..1 :
          GwRun(name, index)
    \/ \E result \in WebhookResults : ManualWebhook(result)
    \/ ManualStore
    \/ \E i \in DOMAIN timer : TimerCheck(i)
    \/ \E i \in DOMAIN timer, result \in WebhookResults : TimerWebhook(i, result)
    \/ \E i \in DOMAIN timer : TimerStore(i)
    \/ GwScheduleSnapshot
    \/ ClockAdvance

SchedSpec == Init /\ [][SchedNext]_vars

\* Routing of one GET over drawn service lists and paths.
RouteSpecInit == GwInit /\ StatsInit /\ SchedParked /\ RouteInit /\ LoadParked /\ HostParked

RouteSpec == RouteSpecInit /\ [][RouteRequest]_vars

\* Loading of drawn services directories.
LoadSpecInit == GwInit /\ StatsInit /\ SchedParked /\ RouteParked /\ LoadInit /\ HostParked

LoadSpec == LoadSpecInit /\ [][LoadNext]_vars

\* One timer loop over drawn intervals and paused reads.
LoopSpecInit ==
    GwInit /\ StatsInit /\ SchedParked /\ RouteParked /\ LoadParked /\ CtlInit
    /\ HealthInit /\ MemInit /\ ProcParked /\ LockInit /\ LoopInit

LoopSpec == LoopSpecInit /\ [][LoopNext]_vars

\* The threads of the runner taking and dropping the store mutexes.
LocksSpec == Init /\ [][LocksNext]_vars

-----------------------------------------------------------------------------
(* Properties.                                                             *)

\* C1: the counts prepare_delivery returns for one queue are strictly
\* increasing, and between two successive results of QueueRegistry::snapshot
\* every queue of the earlier one is still listed with a count at least as
\* large.
C1_CountsNeverGoBack ==
    /\ \A q \in DOMAIN prepLog :
          \A i \in 1..(Len(prepLog[q]) - 1) : prepLog[q][i] < prepLog[q][i + 1]
    /\ \A i \in 1..Len(qsnaps[1]) :
          \E j \in 1..Len(qsnaps[2]) :
             /\ qsnaps[2][j].name = qsnaps[1][i].name
             /\ qsnaps[2][j].message_count >= qsnaps[1][i].message_count

\* Two publishes to q, with a snapshot before the second and one after it.
C1_Witness ==
    /\ Str_q \in DOMAIN prepLog
    /\ Len(prepLog[Str_q]) >= 2
    /\ Len(qsnaps[1]) >= 1
    /\ qsnaps[1][1].name = Str_q
    /\ qsnaps[2][1].name = Str_q
    /\ qsnaps[1][1].message_count < qsnaps[2][1].message_count

\* C2: the message count of every queue equals the number of publishes the
\* runner has accepted for it since initialize_queue_registry, whatever the
\* deliveries did and whatever was published to other queues.
C2_CountIsPublishes ==
    \A q \in {Str_q, Str_r} \cup DOMAIN published \cup DOMAIN queues :
        MessageCount(queues, q) = MapGet(published, q, 0)

\* Two publishes to q, one to r, and a delivery of the last publish failed.
C2_Witness ==
    /\ MapGet(published, Str_q, 0) = 2
    /\ MapGet(published, Str_r, 0) = 1
    /\ done.status = 202
    /\ \E k \in 1..Len(done.attempts) : ~done.attempts[k].ok

\* C3: while the handler of a proxied GET waits for the answer to its own
\* publish, the gateway is not itself blocked on that GET: it can take the
\* publish and answer it.
C3_PublishFromHandlerIsServed ==
    svc.pc = "waiting" => gw.pc # "upstream"

\* C4 as stated: while the schedule is paused and no toggle intervenes, the
\* timer task makes no webhook call and changes none of last_run,
\* last_status, last_error.
C4_PausedTimerIsSilent ==
    [][ (sched[SchedService.name][1].paused /\ sched'[SchedService.name][1].paused)
        => /\ ~(timer[1].pc = "fire" /\ timer'[1].pc = "store")
           /\ (timer'[1] # timer[1]
               => Outcome(sched'[SchedService.name][1])
                  = Outcome(sched[SchedService.name][1])) ]_vars

\* C4: a tick that reads paused = true resets the countdown to the interval
\* and starts no run; the only webhook call and state update the timer task
\* makes while the schedule is paused belong to a run whose tick read the
\* flag before the toggle that paused it.
C4_PausedTickStartsNothing ==
    /\ [](sched[SchedService.name][1].paused /\ timer[1].pc \in {"fire", "store"}
          => timer[1].stale)
    /\ [][ (sched[SchedService.name][1].paused /\ sched'[SchedService.name][1].paused
            /\ timer[1].pc = "sleep" /\ timer'[1] # timer[1])
           => /\ timer'[1].pc = "sleep"
              /\ timer'[1].remaining = Max(SchedService.schedules[1].interval_secs, 1)
              /\ sched' = sched ]_vars

\* The schedule was paused while a tick-fired webhook was in flight, and the
\* run is about to store its outcome.
C4_Witness ==
    /\ sched[SchedService.name][1].paused
    /\ timer[1].pc = "store"
    /\ timer[1].stale

\* C5: the stored (last_run, last_status, last_error) is the outcome of the
\* run that took the lock last, and a snapshot shows either no run or the
\* three fields of one run: a time with a status and no error, or with an
\* error and no status.
C5_OutcomeOfOneRun ==
    /\ Outcome(sched[SchedService.name][1]) = lastStored.outcome
    /\ LET shown == Outcome(ssnap[SchedService.name][1])
       IN  \/ shown = NeverRun
           \/ /\ shown.last_run # None
              /\ [status |-> shown.last_status, error |-> shown.last_error]
                    \in WebhookResults

\* A manual run stored last while a tick-fired run with another result was
\* in flight, and a snapshot taken since shows the manual run.
C5_Witness ==
    /\ lastStored.who = "manual"
    /\ lastStored.overlapped
    /\ timer[1].pc = "store"
    /\ timer[1].status # lastStored.outcome.last_status
    /\ ssnap = sched
    /\ ssnap[SchedService.name][1].last_run # None

\* C6: in every (service, endpoint) bucket of the stats store the largest
\* minute key exceeds the smallest by at most 59.
C6_WindowIsOneHour ==
    \A s \in DOMAIN stats : \A e \in DOMAIN stats[s] :
        \A m1 \in DOMAIN stats[s][e], m2 \in DOMAIN stats[s][e] :
            m1 - m2 <= MAX_MINUTES - 1

\* C7: a GET is forwarded to the service whose prefix equals the first
\* segment of the path, with the rest of the path as endpoint, when that
\* service allows the endpoint; a first segment that is no service's prefix
\* is answered 404.
C7_RoutesByFirstSegment ==
    rout.answered =>
        LET slashes == {k \in 1..Len(rin.path) : rin.path[k] = Slash}
            slash == IF slashes = {} THEN 0
                     ELSE CHOOSE k \in slashes : \A m \in slashes : k <= m
            segment == IF slash = 0 THEN rin.path
                       ELSE SubSeq(rin.path, 1, slash - 1)
            rest == IF slash = 0 THEN <<>>
                    ELSE SubSeq(rin.path, slash + 1, Len(rin.path))
            owners == {i \in 1..Len(rin.services) : rin.services[i].prefix = segment}
        IN  IF owners = {} THEN rout.status = 404
            ELSE \A i \in owners :
                    Supports(rin.services[i], "GET", rest)
                    => /\ rout.status = 0
                       /\ rout.service = rin.services[i].name
                       /\ rout.endpoint = rest

\* C8: the services load_services returns have pairwise distinct prefixes.
C8_PrefixesDistinct ==
    loaded.ok =>
        \A i \in 1..Len(loaded.services), j \in 1..Len(loaded.services) :
            i # j => loaded.services[i].prefix # loaded.services[j].prefix

\* C9: a request the routing answers 404 made no upstream call and recorded
\* nothing, and the stats store changes only in the step that handles the
\* answer of an upstream call.
C9_RejectedLeavesNoTrace ==
    /\ [](done.origin = "routing"
          => done.status = 404 /\ done.calls = 0 /\ done.recorded = <<>>)
    /\ [][stats' # stats => gw.pc = "upstream" /\ gw.calls = 1]_vars

\* A request was answered 404 by the routing after a forwarded one had been
\* recorded.
C9_Witness ==
    /\ done.origin = "routing"
    /\ done.status = 404
    /\ done.req.method = "GET"
    /\ stats # <<>>

\* C10: a forwarded request records exactly one stats entry, and its status
\* is the status the client receives.
C10_RecordedIsSent ==
    done.origin = "upstream"
        => Len(done.recorded) = 1 /\ done.recorded[1] = done.status

\* C11: the 202 of a publish is sent after one delivery attempt to every
\* subscriber the registry holds for the queue, in order, and its body
\* reports the number of those subscribers and the count the publish's
\* prepare_delivery returned.
C11_AnswerAfterAllAttempts ==
    [][ (gw.pc = "deliver" /\ gw'.pc = "idle")
        => LET registered == EntryOrDefault(queues, gw.queue).subscribers
               counts == prepLog[gw.queue]
           IN  /\ done'.status = 202
               /\ Len(done'.attempts) = Len(registered)
               /\ \A k \in 1..Len(registered) : done'.attempts[k].to = registered[k]
               /\ done'.body.queue = gw.queue
               /\ done'.body.subscribers = Len(registered)
               /\ done'.body.message_count = counts[Len(counts)] ]_vars

\* The second publish to q was answered 202 after both of its subscribers
\* had been tried.
C11_Witness ==
    /\ done.status = 202
    /\ done.body.queue = Str_q
    /\ done.body.subscribers = 2
    /\ done.body.message_count = 2
    /\ Len(done.attempts) = 2

\* C12: a publish whose delivery to one subscriber failed still tries every
\* other subscriber of the snapshot exactly once, is answered 202, and keeps
\* its increment of the message count.
C12_FailedDeliveryKeepsPublish ==
    [][ (gw.pc = "deliver" /\ gw'.pc = "idle"
         /\ \E k \in 1..Len(gw.attempts) : ~gw.attempts[k].ok)
        => /\ done'.status = 202
           /\ \A j \in 1..Len(gw.subs) :
                 Cardinality({k \in 1..Len(done'.attempts) :
                                 done'.attempts[k].to = gw.subs[j]}) = 1
           /\ MessageCount(queues', gw.queue) = MapGet(published, gw.queue, 0)
           /\ done'.body.message_count = MessageCount(queues', gw.queue) ]_vars

\* A publish to q was answered 202 although its first delivery failed and
\* its second succeeded.
C12_Witness ==
    /\ done.status = 202
    /\ Len(done.attempts) = 2
    /\ ~done.attempts[1].ok
    /\ done.attempts[2].ok
    /\ MessageCount(queues, Str_q) >= 1

\* C13: a snapshot of the queue registry lists a queue if and only if at
\* least one message has been published to it; a queue that only has
\* subscribers is in no snapshot, and the last snapshot taken lists only
\* queues that have been published to.
C13_ListedIffPublished ==
    /\ \A q \in {Str_q, Str_r} \cup DOMAIN queues \cup DOMAIN published :
          (\E i \in 1..Len(QueueSnapshot(queues)) : QueueSnapshot(queues)[i].name = q)
          <=> MapGet(published, q, 0) >= 1
    /\ \A i \in 1..Len(qsnaps[2]) : MapGet(published, qsnaps[2][i].name, 0) >= 1

\* r, which has no subscribers, was published to and is listed by the last
\* snapshot; q, which has subscribers and no publish, is not.
C13_Witness ==
    /\ MapGet(published, Str_r, 0) >= 1
    /\ MapGet(published, Str_q, 0) = 0
    /\ EntryOrDefault(queues, Str_q).subscribers # <<>>
    /\ Len(qsnaps[2]) = 1
    /\ qsnaps[2][1].name = Str_r

\* C14: of two successive successful toggles of the same schedule, the
\* first returns the negation of the paused value it found, the second
\* returns that value, and paused is back at it.
C14_ToggleIsInvolutive ==
    Len(toggles) = 2
        => /\ toggles[1].returned = ~toggles[1].before
           /\ toggles[2].returned = toggles[1].before
           /\ sched[SchedService.name][1].paused = toggles[1].before

\* Two toggles went through, with a run stored between or after them.
C14_Witness ==
    /\ Len(toggles) = 2
    /\ ~toggles[1].before
    /\ lastStored.who # "nobody"
    /\ manual.op = "toggle"
    /\ manual.answer = 200

\* C15 as stated: the first tick the timer task executes after a toggle
\* that un-paused the schedule fires the webhook.
C15_ResumedTickFires ==
    [][ (timer[1].stale /\ ~sched[SchedService.name][1].paused
         /\ timer[1].pc = "sleep" /\ timer'[1] # timer[1] /\ sched' = sched)
        => timer'[1].pc = "fire" ]_vars

\* C15: the first tick the timer task executes after a toggle that
\* un-paused the schedule resumes the countdown: it fires the webhook when
\* no more than one tick remains and otherwise takes one tick off the
\* countdown, which never exceeds the interval.
C15_ResumedTickCountsDown ==
    /\ [](timer[1].remaining \in 1..Max(SchedService.schedules[1].interval_secs, 1))
    /\ [][ (timer[1].stale /\ ~sched[SchedService.name][1].paused
            /\ timer[1].pc = "sleep" /\ timer'[1] # timer[1] /\ sched' = sched)
           => IF timer[1].remaining > SCHEDULE_LOOP_TICK_SECS
              THEN /\ timer'[1].pc = "sleep"
                   /\ timer'[1].remaining = timer[1].remaining - SCHEDULE_LOOP_TICK_SECS
              ELSE /\ timer'[1].pc = "fire"
                   /\ timer'[1].remaining
                         = Max(SchedService.schedules[1].interval_secs, 1) ]_vars

\* A second toggle has just un-paused the schedule, whose countdown stands
\* at the whole interval, and the timer task is about to tick.
C15_Witness ==
    /\ Len(toggles) = 2
    /\ ~toggles[2].returned
    /\ ~sched[SchedService.name][1].paused
    /\ timer[1].stale
    /\ timer[1].pc = "sleep"
    /\ timer[1].remaining = SchedService.schedules[1].interval_secs

\* C16: no step of a manual trigger changes the timer task's countdown, the
\* paused flag, the endpoint or the interval of any schedule, or the set of
\* schedules.
C16_ManualRunFrame ==
    [][ (manual' # manual /\ (manual.pc \in {"call", "store"} \/ manual'.pc = "call"))
        => /\ timer' = timer
           /\ DOMAIN sched' = DOMAIN sched
           /\ \A n \in DOMAIN sched :
                 /\ Len(sched'[n]) = Len(sched[n])
                 /\ \A i \in 1..Len(sched[n]) :
                       /\ sched'[n][i].paused = sched[n][i].paused
                       /\ sched'[n][i].endpoint = sched[n][i].endpoint
                       /\ sched'[n][i].interval_secs = sched[n][i].interval_secs ]_vars

\* A manual run stored its outcome on a paused schedule whose countdown
\* was under way.
C16_Witness ==
    /\ lastStored.who = "manual"
    /\ manual.op = "run"
    /\ manual.answer = 200
    /\ sched[SchedService.name][1].paused
    /\ sched[SchedService.name][1].last_run # None
    /\ timer[1].remaining = 1

\* C17: a toggle for a service the schedule map does not hold ends in
\* ServiceNotFound when toggle_schedule is called, one for an index past the
\* service's schedules in ScheduleNotFound; the gateway answers 404 and no
\* schedule state changes.
C17_MissingToggleIs404 ==
    [][ (manual' # manual /\ manual'.op = "toggle")
        => /\ (manual'.service \notin DOMAIN sched
               => /\ manual'.answer = 404
                  /\ (Configured(SchedServices, manual'.service)
                      => manual'.result = "ServiceNotFound")
                  /\ sched' = sched /\ timer' = timer /\ toggles' = toggles)
           /\ (manual'.service \in DOMAIN sched
               /\ ~HasIndex(sched[manual'.service], manual'.index)
               => /\ manual'.answer = 404
                  /\ manual'.result = "ScheduleNotFound"
                  /\ sched' = sched /\ timer' = timer /\ toggles' = toggles) ]_vars

\* A toggle for a configured service without schedules was answered 404
\* while the other service's schedule was paused and had run.
C17_Witness ==
    /\ manual.op = "toggle"
    /\ manual.service = PlainService.name
    /\ manual.result = "ServiceNotFound"
    /\ manual.answer = 404
    /\ sched[SchedService.name][1].paused
    /\ sched[SchedService.name][1].last_run # None

\* C18: of two successive requests the gateway forwards to a service that
\* has more than one instance, the second goes to another instance URL than
\* the first.
C18_RoundRobin ==
    (/\ gw.pc = "upstream"
     /\ done.origin = "upstream"
     /\ done.service = gw.service
     /\ Len(Services[gw.service].runner_urls) > 1)
        => gw.target # done.target

\* C19: on every store, two records into the same (service, endpoint,
\* minute) give the same store in either order, two records of one status
\* into one bucket raise its count by exactly two, and every record call
\* that changes the store raises the count of one bucket by exactly one.
C19_RecordsAddUp ==
    /\ [](\A key \in RecordKeys :
          \A t1 \in {t \in RecordTimes : t >= 0} :
          \A t2 \in {t \in RecordTimes : t >= t1 /\ t \div 60 = t1 \div 60} :
          \A s1 \in RecordStatuses :
             /\ \A s2 \in {s \in RecordStatuses : s > s1 \/ (s = s1 /\ t2 > t1)} :
                   StatsRecord(StatsRecord(stats, key[1], key[2], s1, t1),
                               key[1], key[2], s2, t2)
                   = StatsRecord(StatsRecord(stats, key[1], key[2], s2, t2),
                                 key[1], key[2], s1, t1)
             /\ BucketCount(StatsRecord(StatsRecord(stats, key[1], key[2], s1, t1),
                                        key[1], key[2], s1, t2),
                            key[1], key[2], t1 \div 60, s1)
                = BucketCount(stats, key[1], key[2], t1 \div 60, s1) + 2)
    /\ [][ (nrec' = nrec + 1 /\ stats' # stats)
           => \E key \in RecordKeys, s1 \in RecordStatuses, t1 \in RecordTimes :
                 /\ t1 >= 0
                 /\ BucketCount(stats', key[1], key[2], t1 \div 60, s1)
                    = BucketCount(stats, key[1], key[2], t1 \div 60, s1) + 1 ]_vars

\* Two records of 200 went into one bucket, at different seconds of the
\* same minute or not, next to a record of 404.
C19_Witness ==
    /\ nrec = 3
    /\ BucketCount(stats, Str_a, Str_p, 0, 200) = 2
    /\ BucketCount(stats, Str_a, Str_p, 0, 404) = 1

\* C20: in a stats snapshot, global is ascending by minute, lists exactly
\* the minutes some endpoint of the store holds, and its count for a minute
\* and a status is the sum, over all services and endpoints, of the counts
\* the store holds for that minute and status.
C20_GlobalIsTheSum ==
    snap.taken =>
        LET global == snap.result.global
        IN  /\ \A i \in 1..(Len(global) - 1) : global[i].minute < global[i + 1].minute
            /\ {global[i].minute : i \in 1..Len(global)}
               = UNION {DOMAIN stats[s][e] : <<s, e>> \in
                           {k \in RecordKeys : k[1] \in DOMAIN stats
                                               /\ k[2] \in DOMAIN stats[k[1]]}}
            /\ \A s \in DOMAIN stats : \A e \in DOMAIN stats[s] : <<s, e>> \in RecordKeys
            /\ \A i \in 1..Len(global) :
                  /\ DOMAIN global[i].counts \subseteq RecordStatuses
                  /\ \A status \in RecordStatuses :
                        MapGet(global[i].counts, status, 0)
                        = BucketCount(stats, Str_a, Str_p, global[i].minute, status)
                          + BucketCount(stats, Str_a, Str_n, global[i].minute, status)
                          + BucketCount(stats, Str_b, Str_p, global[i].minute, status)

\* A snapshot of a store where two services hold a 200 in minute 0 and a
\* third record sits in another minute.
C20_Witness ==
    /\ snap.taken
    /\ BucketCount(stats, Str_a, Str_p, 0, 200) >= 1
    /\ BucketCount(stats, Str_b, Str_p, 0, 200) >= 1
    /\ Len(snap.result.global) = 2
    /\ MapGet(snap.result.global[1].counts, 200, 0) = 2

\* C21 as stated: a method other than GET and POST is answered 405 on any
\* path, a POST outside /__runner__/queues/ and /__runner__/services/ is
\* answered 404, and a GET on /__runner__/services/<name>/schedules/... is
\* answered 405 for every <name>; none of them contacts a service or changes
\* schedule, queue or stats state.
C21_RejectedWithoutEffect ==
    [][ (gw.pc = "idle" /\ inbox # <<>> /\ inbox' = Tail(inbox))
        => LET req == Head(inbox)
               trimmed == TrimStartMatches(req.path, Slash)
               underQueues == StripPrefix(trimmed, RunnerQueuesPrefix).some
               asService == StripPrefix(trimmed, RunnerServicesPrefix)
               segments == Segments(asService.rest)
               onSchedules == /\ asService.some
                              /\ Len(segments) >= 2
                              /\ segments[2] = Str_schedules
               untouched == /\ done'.req = req
                            /\ done'.calls = 0
                            /\ done'.attempts = <<>>
                            /\ gw'.pc = "idle"
                            /\ manual'.pc = "idle"
                            /\ UNCHANGED <<sched, queues, stats>>
           IN  /\ req.method \notin {"GET", "POST"}
                  => done'.status = 405 /\ untouched
               /\ (req.method = "POST" /\ ~underQueues /\ ~asService.some)
                  => done'.status = 404 /\ untouched
               /\ (req.method = "GET" /\ onSchedules)
                  => done'.status = 405 /\ untouched ]_vars

\* C21, amended: as above, but the GET on .../<name>/schedules/... is
\* answered 405 when <name> is a configured service and 404 when it is not.
C21_RejectedWithoutEffectByService ==
    [][ (gw.pc = "idle" /\ inbox # <<>> /\ inbox' = Tail(inbox))
        => LET req == Head(inbox)
               trimmed == TrimStartMatches(req.path, Slash)
               underQueues == StripPrefix(trimmed, RunnerQueuesPrefix).some
               asService == StripPrefix(trimmed, RunnerServicesPrefix)
               segments == Segments(asService.rest)
               onSchedules == /\ asService.some
                              /\ Len(segments) >= 2
                              /\ segments[2] = Str_schedules
               untouched == /\ done'.req = req
                            /\ done'.calls = 0
                            /\ done'.attempts = <<>>
                            /\ gw'.pc = "idle"
                            /\ manual'.pc = "idle"
                            /\ UNCHANGED <<sched, queues, stats>>
           IN  /\ req.method \notin {"GET", "POST"}
                  => done'.status = 405 /\ untouched
               /\ (req.method = "POST" /\ ~underQueues /\ ~asService.some)
                  => done'.status = 404 /\ untouched
               /\ (req.method = "GET" /\ onSchedules)
                  => /\ done'.status = IF Configured(Services, segments[1])
                                       THEN 405 ELSE 404
                     /\ untouched ]_vars

\* A GET on the toggle path of the configured service a was answered 405.
C21_Witness ==
    /\ done.req = Get(<<"/">> \o RunnerServicesPrefix \o Str_a \o <<"/">> \o Str_schedules
                      \o <<"/", "0", "/">> \o Str_toggle)
    /\ done.status = 405

\* C22: a control endpoint whose store's lock is poisoned answers 503: GET
\* /__runner__/stats, GET .../<service>/logs, POST .../schedules/<i>/toggle,
\* POST .../schedules/<i>/run and POST /__runner__/queues/<queue>, for a
\* configured service and a non-empty queue name.
C22_PoisonedIs503 ==
    /\ [][ (gw.pc = "idle" /\ inbox # <<>> /\ inbox' = Tail(inbox))
           => LET req == Head(inbox)
                  trimmed == TrimStartMatches(req.path, Slash)
                  asQueue == StripPrefix(trimmed, RunnerQueuesPrefix)
                  asService == StripPrefix(trimmed, RunnerServicesPrefix)
                  segments == Segments(asService.rest)
                  onService == /\ asService.some
                               /\ Len(segments) >= 2
                               /\ Configured(Services, segments[1])
              IN  /\ (req.method = "GET" /\ trimmed = RunnerStatsPath
                      /\ "stats" \in poisoned)
                     => done'.status = 503
                  /\ (req.method = "GET" /\ onService /\ segments = <<segments[1], Str_logs>>
                      /\ "logs" \in poisoned)
                     => done'.status = 503
                  /\ (req.method = "POST" /\ onService /\ Len(segments) = 4
                      /\ segments[2] = Str_schedules /\ ParseUsize(segments[3]) # None
                      /\ segments[4] = Str_toggle /\ "schedules" \in poisoned)
                     => done'.status = 503
                  /\ (req.method = "POST" /\ asQueue.some /\ Trim(asQueue.rest) # <<>>
                      /\ "queues" \in poisoned)
                     => done'.status = 503 ]_vars
    /\ [][ (manual.pc = "store" /\ manual'.pc = "idle" /\ "schedules" \in poisoned)
           => manual'.answer = 503 ]_vars

\* C23: the write that ends the poll of service s leaves s Healthy exactly
\* when the probe came back with status 200 and Unhealthy otherwise, and
\* leaves every other service's record as it was.
C23_HealthFollowsProbe ==
    [][ health' # health
        => LET s == Services[monitor.i].name
           IN  /\ monitor.pc = "store"
               /\ health'[s].status
                  = IF monitor.outcome = [kind |-> "response", status |-> 200]
                    THEN "Healthy" ELSE "Unhealthy"
               /\ DOMAIN health' = DOMAIN health
               /\ \A t \in DOMAIN health \ {s} : health'[t] = health[t] ]_vars

\* Service a was found healthy, then service b answered 204 and is
\* Unhealthy while a is still Healthy.
C23_Witness ==
    /\ health[Str_a].status = "Healthy"
    /\ health[Str_b].status = "Unhealthy"
    /\ monitor.pc = "sleep"
    /\ monitor.outcome = [kind |-> "response", status |-> 204]

\* C24: no service's log ring ever holds more than 200 lines, however the
\* stdout, stderr and seed forwarders that push into it interleave.
C24_RingAtMost200 ==
    \A name \in DOMAIN logs : Len(logs[name]) <= 200

\* A full ring of service a took a line from the seed forwarder and then
\* one from the stderr forwarder, and is full still.
C24_Witness ==
    /\ Len(logs[Str_a]) = 200
    /\ logs[Str_a][200].level = ToUppercase("stderr")
    /\ logs[Str_a][199] = FormatLine(Str_a, "info", SeedLines[1])
    /\ logs[Str_a][198] = FormatLine(Str_a, "stdout", <<"x">>)
    /\ fwd[<<Str_a, "info">>].read = 1
    /\ fwd[<<Str_a, "stderr">>].read = 1

\* C25: every record of the memory store keeps the limit_bytes that
\* initialize_memory_store gave it, through any sequence of
\* record_memory_usage and reset_memory_entry; a reset leaves usage_bytes and
\* last_updated at None; no call adds or removes a key, and a call for an
\* unknown service changes nothing.
C25_LimitFixedResetClears ==
    /\ [](/\ DOMAIN memory = {Str_a, Str_b}
          /\ memory[Str_a].limit_bytes = <<64 * 1024 * 1024>>
          /\ memory[Str_b].limit_bytes = <<>>)
    /\ [][ memop'.n = memop.n + 1
           => /\ (memop'.op = "reset" /\ memop'.service \in DOMAIN memory)
                 => /\ memory'[memop'.service].usage_bytes = <<>>
                    /\ memory'[memop'.service].last_updated = <<>>
              /\ memop'.service \notin DOMAIN memory => memory' = memory
              /\ \A name \in DOMAIN memory \ {memop'.service} :
                    memory'[name] = memory[name] ]_vars

\* Service a had a usage recorded at time 1 and was then reset; b's usage
\* recorded in between is still there.
C25_Witness ==
    /\ memop = [n |-> 3, op |-> "reset", service |-> Str_a]
    /\ memory[Str_a] = [usage_bytes |-> <<>>, limit_bytes |-> <<64 * 1024 * 1024>>,
                        last_updated |-> <<>>]
    /\ memory[Str_b] = [usage_bytes |-> <<4096>>, limit_bytes |-> <<>>,
                        last_updated |-> <<1>>]


\* C26: every schedule of a loaded service names one of the service's
\* allowed GET endpoints and has an interval above zero, and a directory
\* with a service whose schedule names an endpoint that, its slashes
\* trimmed, is outside the GET endpoints of the OpenAPI document does not
\* load.
C26_SchedulesAreAllowedGets ==
    /\ loaded.ok
       => \A i \in 1..Len(loaded.services) :
             \A k \in 1..Len(loaded.services[i].schedules) :
                /\ loaded.services[i].schedules[k].endpoint
                       \in loaded.services[i].allowed_get_endpoints
                /\ loaded.services[i].schedules[k].interval_secs > 0
    /\ \A e \in 1..Len(dir) :
          LET entry == dir[e]
              parsed == DeserializeSchedules(entry.schedules, <<>>)
          IN  /\ entry.is_dir /\ entry.has_config /\ entry.has_manifest
              /\ parsed.ok
              /\ \E k \in 1..Len(parsed.raw) :
                    TrimMatches(parsed.raw[k].endpoint, Slash)
                        \notin CollectGetEndpoints(entry.get_paths)
              => ~loaded.ok

\* Two services are loaded, one of them with two schedules written in
\* different shapes and with different slashes.
C26_Witness ==
    /\ loaded.ok
    /\ Len(loaded.services) = 2
    /\ loaded.services[1].allowed_get_endpoints = {Str_p, Str_n}
    /\ loaded.services[1].schedules
           = <<[endpoint |-> Str_p, interval_secs |-> 2],
               [endpoint |-> Str_p, interval_secs |-> 3]>>


\* C27: a service loaded with runners = n from a URL with port p has
\* max(1, n) runner URLs, their ports are p, p+1, ..., p+n-1, distinct and
\* within 1..65535; a directory with a service of n > 1 runners whose URL
\* has no port, or whose last port p+n-1 is above 65535, does not load.
C27_RunnerPorts ==
    LET Authority(url) ==
            LET rest == SubSeq(url, FirstIndex(url, ":") + 3, Len(url))
            IN  IF FirstIndex(rest, Slash) = 0 THEN rest
                ELSE SubSeq(rest, 1, FirstIndex(rest, Slash) - 1)
        PortText(url) ==
            IF LastIndex(Authority(url), ":") = 0 THEN <<>>
            ELSE SubSeq(Authority(url), LastIndex(Authority(url), ":") + 1,
                        Len(Authority(url)))
        HasPort(url) == PortText(url) # <<>>
        Port(url) == DecimalValue(PortText(url), 0)
    IN  \A e \in 1..Len(dir) :
           LET entry == dir[e]
               n == entry.runners
               url == Trim(entry.url)
           IN  /\ loaded.ok
                  => \A i \in 1..Len(loaded.services) :
                        loaded.services[i].name = entry.name /\ url \in Urls
                        => LET runner_urls == loaded.services[i].runner_urls
                           IN  /\ Len(runner_urls) = Max(1, n)
                               /\ HasPort(url)
                                  => \A k \in 1..Len(runner_urls) :
                                        LET port ==
                                                IF HasPort(runner_urls[k])
                                                THEN Port(runner_urls[k])
                                                ELSE PortOrKnownDefault(
                                                         UrlParse(runner_urls[k]))[1]
                                        IN  /\ port = Port(url) + k - 1
                                            /\ port \in 1..U16_MAX
               /\ /\ entry.is_dir /\ entry.has_config /\ entry.has_manifest
                  /\ url \in Urls
                  /\ n > 1
                  /\ ~HasPort(url) \/ Port(url) + n - 1 > U16_MAX
                  => ~loaded.ok


\* C28: a loaded service has no memory limit or one in 1..268435455
\* (floor((2^32 - 1) / 16)); memory_page_limit answers None without a
\* limit and otherwise Some(16 * limit), a value of 32 bits; a directory
\* with a service whose limit is 0 or above 268435455 does not load.
C28_PageLimitFits ==
    /\ loaded.ok
       => \A i \in 1..Len(loaded.services) :
             LET memory_limit_mb == loaded.services[i].memory_limit_mb
             IN  /\ memory_limit_mb # None => memory_limit_mb[1] \in 1..268435455
                 /\ page_limit.asked /\ page_limit.service = loaded.services[i].name
                    => IF memory_limit_mb = None THEN page_limit.pages = None
                       ELSE /\ page_limit.pages # None
                            /\ page_limit.pages[1].high \in 0..65535
                            /\ page_limit.pages[1].low \in 0..65535
                            /\ page_limit.pages[1].low % 16 = 0
                            /\ page_limit.pages[1].high * 4096
                                   + page_limit.pages[1].low \div 16
                               = memory_limit_mb[1]
    /\ \A e \in 1..Len(dir) :
          /\ dir[e].is_dir /\ dir[e].has_config /\ dir[e].has_manifest
          /\ dir[e].memory_limit_mb # None
          /\ dir[e].memory_limit_mb[1] = 0 \/ dir[e].memory_limit_mb[1] > 268435455
          => ~loaded.ok

\* The service with the largest limit was asked: 16 * 268435455 is
\* 65535 * 65536 + 65520.
C28_Witness ==
    /\ loaded.ok
    /\ Len(loaded.services) = 2
    /\ page_limit.asked
    /\ page_limit.service = Str_b
    /\ loaded.services[2].memory_limit_mb = Some(268435455)
    /\ page_limit.pages = Some([high |-> 65535, low |-> 65520])


\* C29: a schedule entry written as the array [e, n], as an object with
\* an endpoint key (endpoint, path) and an interval key (interval,
\* interval_secs, seconds, every_secs), or as the object {e: n} whose key
\* is not reserved, has the same outcome in every shape and for every
\* spelling of e that differs in leading and trailing slashes only: the
\* same refusal, or the same (endpoint, interval_secs) pair, which is the
\* pair the loaded service holds.
C29_WireShapesAgree ==
    LET ShapesOf(endpoint, interval) ==
            IF endpoint \in SpecialKeys
            THEN WireShapes(endpoint, interval) \ {KeyShape(endpoint, interval)}
            ELSE WireShapes(endpoint, interval)
        Normalized(entry, value) ==
            LET parsed == DeserializeSchedules(<<value>>, <<>>)
                normalized ==
                    NormalizeServiceSchedules(CollectGetEndpoints(entry.get_paths),
                                              parsed.raw, <<>>)
            IN  IF parsed.ok /\ normalized.ok THEN normalized.schedules ELSE <<>>
    IN  \A e \in 1..Len(dir) :
           \A e1 \in ScheduleEndpoints, interval \in ScheduleIntervals :
              Len(dir[e].schedules) = 1 /\ dir[e].schedules[1] \in ShapesOf(e1, interval)
              => /\ \A e2 \in ScheduleEndpoints :
                       TrimMatches(e2, Slash) = TrimMatches(e1, Slash)
                       => \A other \in ShapesOf(e2, interval) :
                             Normalized(dir[e], other)
                                 = Normalized(dir[e], dir[e].schedules[1])
                 /\ loaded.ok
                    => \A i \in 1..Len(loaded.services) :
                          loaded.services[i].name = dir[e].name
                          => /\ loaded.services[i].schedules
                                    = Normalized(dir[e], dir[e].schedules[1])
                             /\ loaded.services[i].schedules
                                    = <<[endpoint |-> TrimMatches(e1, Slash),
                                         interval_secs |-> interval.n]>>

\* A service is loaded whose schedule is written as {"/p": 2}.
C29_Witness ==
    /\ loaded.ok
    /\ Len(dir) = 2
    /\ dir[1].schedules = <<KeyShape(Str_slash_p, JNumber(2))>>
    /\ loaded.services[1].schedules = <<[endpoint |-> Str_p, interval_secs |-> 2]>>


C31_NoLockAcrossIo ==
    \A thread \in Threads :
        lpc[thread].inflight
        /\ lpc[thread].steps[lpc[thread].at].arg
               \in {"upstream", "deliver", "webhook", "probe"}
        => \A store \in LockStores : held[store] # thread

\* The timer's webhook is in flight while the gateway thread holds the
\* schedule map's mutex.
C31_Witness ==
    /\ lpc["timer"].inflight
    /\ lpc["timer"].steps = RunScheduleSteps
    /\ held["schedules"] = "gateway"
    /\ lpc["monitor"].inflight

\* C32: a timer loop with interval I >= 1 that has never read paused as true
\* has fired on the ticks I, 2I, 3I, ... and on no other tick.
C32_FiresEveryInterval ==
    ~ticker.paused_seen
    => ticker.fires = [k \in 1..(ticker.ticks \div ticker.interval) |->
                          k * ticker.interval]

\* An interval of three seconds, never paused, fired twice.
C32_Witness ==
    /\ ~ticker.paused_seen
    /\ ticker.interval = 3
    /\ Len(ticker.fires) = 2

\* C33: right after record(service, endpoint, status, t) at or after the
\* epoch, with m = t / 60, the endpoint's map holds no minute below m - 59
\* (0 when m < 59) and the count of (m, status) is one more than before.
C33_RecordCountsAndEvicts ==
    [][\A key \in RecordKeys, status \in RecordStatuses, t \in RecordTimes :
          (t >= 0 /\ StatsRecordCall(key, status, t))
          => /\ \A minute_key \in DOMAIN MapGet(MapGet(stats', key[1], <<>>), key[2], <<>>) :
                   minute_key >= SaturatingSub(t \div 60, 59)
             /\ BucketCount(stats', key[1], key[2], t \div 60, status)
                    = BucketCount(stats, key[1], key[2], t \div 60, status) + 1]_vars

\* Three records on one endpoint: minute 0 was evicted by a record in minute
\* 60, whose bucket then counted a second answer.
C33_Witness ==
    /\ nrec = 3
    /\ DOMAIN stats = {Str_a}
    /\ DOMAIN MapGet(MapGet(stats, Str_a, <<>>), Str_p, <<>>) = {60}
    /\ BucketCount(stats, Str_a, Str_p, 60, 200) = 2

\* C34: a push leaves in the ring the last min(n, 200) lines of the ring
\* before it followed by the pushed line, in that order: by induction on the
\* pushes the ring is the last min(n, 200) of the n lines pushed, and a push
\* onto a full ring drops the oldest line and nothing else.
C34_RingKeepsLastLines ==
    [][\A f \in Forwarders, line \in ChildLines \cup {SeedLines[1], SeedLines[2]} :
          LogForward(f, line)
          => LET pushed == Append(logs[f[1]], FormatLine(f[1], f[2], line))
                 n == Len(pushed)
                 kept == IF n < 200 THEN n ELSE 200
             IN  /\ logs'[f[1]] = SubSeq(pushed, n - kept + 1, n)
                 /\ \A name \in DOMAIN logs \ {f[1]} : logs'[name] = logs[name]]_vars

\* A full ring of service a took a line with a level from the stdout
\* forwarder and then a line without one from the stderr forwarder: both are
\* at its end, in that order, behind 198 of the lines it held.
C34_Witness ==
    /\ Len(logs[Str_a]) = 200
    /\ logs[Str_a][200] = FormatLine(Str_a, "stderr", <<"x">>)
    /\ logs[Str_a][199] = FormatLine(Str_a, "stdout", <<"[", "W", "]", " ", " ", "x">>)
    /\ logs[Str_a][198] = FormatLine(Str_a, "stdout", <<"x">>)
    /\ fwd[<<Str_a, "info">>].read = 0
    /\ fwd[<<Str_a, "stdout">>].read = 1
    /\ fwd[<<Str_a, "stderr">>].read = 1

\* C35: a health record has status Unknown exactly when its last_checked is
\* None, and a record whose status is Healthy or Unhealthy never goes back to
\* Unknown.
C35_UnknownIffNeverChecked ==
    /\ [](\A name \in DOMAIN health :
             (health[name].status = "Unknown") <=> (health[name].last_checked = None))
    /\ [][\A name \in DOMAIN health :
             health[name].status # "Unknown"
             => name \in DOMAIN health' /\ health'[name].status \in {"Healthy", "Unhealthy"}]_vars

\* Service a was polled a second time, one second after the start, and could
\* not be reached; service b has been polled once.
C35_Witness ==
    /\ health[Str_a] = [status |-> "Unhealthy", last_checked |-> Some(1)]
    /\ health[Str_b] = [status |-> "Healthy", last_checked |-> Some(0)]
    /\ monitor.outcome.kind = "transport"
    /\ monitor.i = 2
    /\ monitor.pc = "probe"

\* C36: no schedule has last_status and last_error both set; last_run is
\* None exactly when both are None; a schedule that has run has exactly one
\* of the two set.
C36_StatusXorError ==
    \A name \in DOMAIN sched : \A i \in 1..Len(sched[name]) :
        LET state == sched[name][i]
        IN  /\ ~(state.last_status # None /\ state.last_error # None)
            /\ (state.last_run = None)
                  <=> (state.last_status = None /\ state.last_error = None)
            /\ state.last_run # None
                  => (state.last_status = None) # (state.last_error = None)

\* A tick-fired run that failed in transport stored its error one second
\* after the start, over the status of a manual run.
C36_Witness ==
    /\ sched[SchedService.name][1].last_run = Some(1)
    /\ sched[SchedService.name][1].last_status = None
    /\ sched[SchedService.name][1].last_error = Some("transport")
    /\ lastStored.who = "timer"
    /\ lastStored.overlapped
    /\ manual.pc = "store"
    /\ manual.status = Some(200)

\* C37: no state update of a schedule stores a last_run earlier than the
\* last_run it replaces.
C37_LastRunNeverDecreases ==
    [][\A name \in DOMAIN sched : \A i \in 1..Len(sched[name]) :
          sched[name][i].last_run # None
          => /\ name \in DOMAIN sched'
             /\ i \in 1..Len(sched'[name])
             /\ sched'[name][i].last_run # None
             /\ sched'[name][i].last_run[1] >= sched[name][i].last_run[1]]_vars

\* C38: a manual trigger of a paused schedule calls the webhook, stores the
\* time, the status and the error of that call in the schedule's state, and
\* leaves the schedule paused.
C38_ManualRunIgnoresPause ==
    [][ /\ (GwRun(SchedService.name, 0) /\ sched[SchedService.name][1].paused)
           => manual'.pc = "call"
        /\ (manual.pc = "store" /\ manual' # manual /\ sched[SchedService.name][1].paused)
           => /\ sched'[SchedService.name][1].last_run = Some(manual.at)
              /\ sched'[SchedService.name][1].last_status = manual.status
              /\ sched'[SchedService.name][1].last_error = manual.error
              /\ sched'[SchedService.name][1].paused
              /\ manual'.answer = 200 ]_vars

\* The schedule was paused before it ever ran, and a manual run whose
\* webhook answered 500 has been stored: the timer task still waits.
C38_Witness ==
    /\ sched[SchedService.name][1].paused
    /\ toggles = <<[before |-> FALSE, returned |-> TRUE]>>
    /\ sched[SchedService.name][1].last_status = Some(500)
    /\ sched[SchedService.name][1].last_run = Some(2)
    /\ lastStored.who = "manual"
    /\ ~lastStored.overlapped
    /\ manual.answer = 200
    /\ timer[1].pc = "sleep"
    /\ timer[1].remaining = SchedService.schedules[1].interval_secs

\* C39: record(service, endpoint, ...) leaves the minute map of every other
\* (service, endpoint) as it was, adds no service or endpoint but the one
\* written and removes none.
C39_RecordTouchesOneEndpoint ==
    [][\A key \in RecordKeys, status \in RecordStatuses, t \in RecordTimes :
          StatsRecordCall(key, status, t)
          => /\ \A other \in RecordKeys \ {key} :
                   MapGet(MapGet(stats', other[1], <<>>), other[2], <<>>)
                   = MapGet(MapGet(stats, other[1], <<>>), other[2], <<>>)
             /\ DOMAIN stats \subseteq DOMAIN stats'
             /\ DOMAIN stats' \subseteq DOMAIN stats \cup {key[1]}
             /\ \A s \in DOMAIN stats :
                   DOMAIN stats[s] \subseteq DOMAIN stats'[s]
             /\ \A s \in DOMAIN stats' :
                   DOMAIN stats'[s] \subseteq
                       (IF s \in DOMAIN stats THEN DOMAIN stats[s] ELSE {})
                       \cup (IF s = key[1] THEN {key[2]} ELSE {})]_vars

\* Three endpoints hold one minute each, more than an hour apart from one
\* another: minute 0 of a/p outlived the records of minute 60 and 120 made
\* for the other two.
C39_Witness ==
    /\ DOMAIN MapGet(MapGet(stats, Str_a, <<>>), Str_p, <<>>) = {0}
    /\ DOMAIN MapGet(MapGet(stats, Str_a, <<>>), Str_n, <<>>) = {60}
    /\ DOMAIN MapGet(MapGet(stats, Str_b, <<>>), Str_p, <<>>) = {120}

\* C40: the deliveries of a publish go to the queue's subscribers one at a
\* time in registration order, and the message counted k + 1 is prepared,
\* and so delivered, only when no delivery loop is under way: the loop of
\* the message counted k has ended with an attempt on every subscriber.
C40_DeliveriesInCountOrder ==
    /\ [](gw.pc = "deliver"
          => /\ gw.count = MessageCount(queues, gw.queue)
             /\ gw.count = prepLog[gw.queue][Len(prepLog[gw.queue])]
             /\ gw.subs = EntryOrDefault(queues, gw.queue).subscribers
             /\ gw.i = Len(gw.attempts) + 1
             /\ \A j \in 1..Len(gw.attempts) : gw.attempts[j].to = gw.subs[j])
    /\ [][ /\ (gw.pc = "deliver" /\ gw' # gw)
              => \/ /\ gw'.pc = "deliver"
                    /\ gw'.count = gw.count
                    /\ gw'.queue = gw.queue
                    /\ Len(gw'.attempts) = Len(gw.attempts) + 1
                 \/ /\ gw'.pc = "idle"
                    /\ Len(gw.attempts) = Len(gw.subs)
           /\ \A q \in DOMAIN prepLog' :
                 MapGet(prepLog', q, <<>>) # MapGet(prepLog, q, <<>>)
                 => /\ gw.pc = "idle"
                    /\ gw'.pc = "deliver"
                    /\ gw'.queue = q
                    /\ gw'.attempts = <<>>
                    /\ gw'.count = MessageCount(queues, q) + 1 ]_vars

\* The second message of q has failed at the first subscriber and waits
\* for its attempt on the second, while a third publish to q waits in the
\* server's queue.
C40_Witness ==
    /\ gw.pc = "deliver"
    /\ gw.queue = Str_q
    /\ gw.count = 2
    /\ Len(gw.subs) = 2
    /\ gw.attempts = <<[to |-> gw.subs[1], ok |-> FALSE]>>
    /\ inbox # <<>>
    /\ Head(inbox) = Post(<<"/">> \o RunnerQueuesPrefix \o Str_q)
====
